---- MODULE Spec2Model ----
(***************************************************************************)
(* Chess Arena server: the per-game session coordinator.                   *)
(*                                                                         *)
(* The model follows apps/server/api/games.py (the move handler and the    *)
(* automated-move chain), packages/chesslib/rules.py (the wrappers around  *)
(* the rules engine), services/rating_glicko2.py (the counters written on  *)
(* game end) and the Game(...) constructions of                            *)
(* services/matchmaking_service.py.                                        *)
(*                                                                         *)
(* Scheduling.  `move` is an `async def` handler: it runs on the event     *)
(* loop and other handlers can run only where it awaits.  It awaits        *)
(* hub.broadcast (games.py:180 and games.py:114), so one request is a      *)
(* chain of atomic segments separated by broadcasts:                       *)
(*     SubmitMove    games.py:153-180   (auth .. commit .. broadcast)      *)
(*     AfterBroadcast games.py:183-184 + 77-117, repeated by 120-121       *)
(* Every request has its own SQLAlchemy session (db/session.py:10-15).     *)
(* commit() expires the loaded Game; building the payload (games.py:179,   *)
(* 116) reloads it, and the attributes then stay cached in the session     *)
(* across the await.  A segment that resumes after the broadcast works on  *)
(* that cached row, and its commit UPDATEs only the columns it modified.   *)
(***************************************************************************)
EXTENDS Integers, Sequences, FiniteSets, TLC

\* ------------------------------------------------------------------ bounds
\* Number of successfully validated submitMove requests in one behaviour.
MaxRequests == 2
\* Number of POST /matchmaking/queue calls in one behaviour.
MaxCalls == 3
\* Number of WebSocket connections opened in one behaviour.
MaxSocks == 2
\* Number of chat requests, and of accepted move requests, in one behaviour
\* of the hub.
MaxChats == 1
MaxHubRequests == 1
\* A move request publishes its move and at most one automated reply.
MaxPublish == 2 * MaxHubRequests + MaxChats

\* ------------------------------------------------------------- participants
Humans == {1, 2}
Bots == {3}
Players == Humans \cup Bots
\* Player.is_bot
is_bot(p) == p \in Bots

\* The game identifiers the autoincrement key hands out in this model.
GameIds == {1}

\* The clients that open WebSocket connections, the game ids they ask for
\* (games.py:206-208 takes any integer) and the moves submitted while the
\* hub is watched.
Clients == {"a", "b"}
RoomIds == {1, 2}
HubMoves == {"f2f3"}

\* The games under way when the engine call is followed in time.
ParGameIds == {1, 2}

\* Python's None for the nullable columns.
None == "None"

\* Player.name (db/models.py:13, unique).  The names the accounts registered
\* with (auth.py:43-55, any string), and the name of the account the
\* matchmaking service creates (matchmaking_service.py:80).
SystemBotName == "Stockfish"
PlayerNames == {"alice", "bob", SystemBotName}
RegisteredName(p) == IF p = 1 THEN "alice" ELSE IF p = 2 THEN "bob" ELSE SystemBotName

\* db/models.py:19: Player.rating, default=1500.0
DefaultRating == 1500

\* A fresh row of table players (db/models.py:23-25: the counters start at 0).
NewPlayer(name) ==
  [name |-> name, rating |-> DefaultRating, wins |-> 0, losses |-> 0, draws |-> 0]

\* ------------------------------------------------------------ rules engine
\* python-chess is an external collaborator.  It is modelled by a finite
\* fragment of the game tree: every board below is named, its legal moves
\* are the edges leaving it.  The F, G and E lines are real chess:
\*   F: 1. f3 e5 2. g4 Qh4#            (fool's mate, White is mated)
\*   G: 1. f3 e5 2. g4 d6 3. h3 Qh4#   (White is mated one move later)
\*   E: 1. e4 f6 2. d4 g5 3. Qh5#  and  1. e4 g5 2. d4 f6 3. Qh5#
\*      (Black is mated; the two move orders transpose into board E4)
\* The D line stands for long games that end in a draw: D2 is a stalemate
\* and D3 a position with insufficient material, the plies in between are
\* elided.  The N boards are the initial placement after both sides have
\* moved a knight out and back (1. Nf3 Nf6 2. Ng1 Ng8), where the same four
\* plies can be played again for ever: no rule of the server ends such a
\* game.  N0 is not reached from "start" within the fragment.
InitialBoard == "start"

\* <<board, uci, san, board after the move>>
Edges ==
  { <<"start", "f2f3", "f3",   "F1">>,
    <<"start", "e2e4", "e4",   "E1">>,
    <<"start", "h2h4", "h4",   "D1">>,
    <<"F1",    "e7e5", "e5",   "F2">>,
    <<"F2",    "g2g4", "g4",   "F3">>,
    <<"F3",    "d8h4", "Qh4#", "F4">>,
    <<"F3",    "d7d6", "d6",   "G4">>,
    <<"G4",    "h2h3", "h3",   "G5">>,
    <<"G5",    "d8h4", "Qh4#", "G6">>,
    <<"E1",    "f7f6", "f6",   "E2a">>,
    <<"E1",    "g7g5", "g5",   "E2b">>,
    <<"E2a",   "d2d4", "d4",   "E3a">>,
    <<"E2b",   "d2d4", "d4",   "E3b">>,
    <<"E3a",   "g7g5", "g5",   "E4">>,
    <<"E3b",   "f7f6", "f6",   "E4">>,
    <<"E4",    "d1h5", "Qh5#", "E5">>,
    <<"D1",    "h7h5", "h5",   "D2">>,
    <<"D1",    "a7a5", "a5",   "D3">>,
    <<"N0",    "g1f3", "Nf3",  "N1">>,
    <<"N1",    "g8f6", "Nf6",  "N2">>,
    <<"N2",    "f3g1", "Ng1",  "N3">>,
    <<"N3",    "f6g8", "Ng8",  "N0">> }

Boards == {e[1] : e \in Edges} \cup {e[4] : e \in Edges}

\* chess.Board.turn: TRUE when White is to move.
WhiteToMove ==
  {"start", "F2", "F4", "G4", "G6", "E2a", "E2b", "E4", "D2", "D3", "N0", "N2"}
Turn(b) == b \in WhiteToMove

\* chess.Board.legal_moves, as UCI strings.
LegalMoves(b) == {e[2] : e \in {x \in Edges : x[1] = b}}

\* The UCI strings a request carries (MoveReq.uci, games.py:21-22): the
\* legal moves of the board, one well-formed move that is not legal on it,
\* and "zz", which is no UCI move at all (chess.Move.from_uci raises
\* ValueError for it, as apply_uci_move does for an illegal move).
UciAlphabet == {e[2] : e \in Edges}
UciInputs(b) ==
  LegalMoves(b)
    \cup {CHOOSE u \in UciAlphabet : u \notin LegalMoves(b)}
    \cup {"zz"}

IsCheckmate(b) == b \in {"F4", "G6", "E5"}
IsStalemate(b) == b \in {"D2"}
IsInsufficientMaterial(b) == b \in {"D3"}

\* rules.py:3-6
board_from_fen_or_start(fen) ==
  IF fen = "" \/ fen = "startpos" THEN InitialBoard ELSE fen

\* chess.Board.push / chess.Board.san for a legal move of board b.
EdgeOf(b, uci) == CHOOSE e \in Edges : e[1] = b /\ e[2] = uci
BoardFen(b) == b

\* Mutant of apply_san: the move-log receives the UCI string, not b.san(move).
apply_san_as_uci(fen, uci) == uci

\* rules.py:8-15: apply_uci_move raises ValueError unless the move is legal.
apply_raises(fen, uci) == uci \notin LegalMoves(board_from_fen_or_start(fen))
apply_new_fen(fen, uci) == BoardFen(EdgeOf(board_from_fen_or_start(fen), uci)[4])
apply_san(fen, uci) == EdgeOf(board_from_fen_or_start(fen), uci)[3]

\* rules.py:17-29
status_flags(fen) ==
  LET b == board_from_fen_or_start(fen) IN
  [ turn |-> IF Turn(b) THEN "white" ELSE "black",
    is_checkmate |-> IsCheckmate(b),
    is_stalemate |-> IsStalemate(b),
    insufficient |-> IsInsufficientMaterial(b) ]

\* -------------------------------------------------------------------- state
VARIABLES
  games,      \* table games: game id -> row (db/models.py Game)
  players,    \* table players: player id -> counters (db/models.py Player)
  req,        \* the validated move requests, in arrival order; `applied` is
              \* the positions the request applied a move to, `depth` the
              \* number of maybe_play_system_move frames that applied one
  sess,       \* in-flight request -> the Game row cached in its session
  rejected,   \* the last rejected submission, if any: who, the HTTP status
  published,  \* hub.broadcast calls: how many, and the last payload
  rateCalls,  \* game id -> number of update_after_game calls
  stockfish_path,  \* StockfishService.path, read from STOCKFISH_PATH at start
  ranked_q,   \* MatchmakingService.ranked_q
  free_q,     \* MatchmakingService.free_q
  calls,      \* the POST /matchmaking/queue calls, in arrival order
  socks,      \* the WebSocket objects, in the order they were accepted
  rooms,      \* Hub.rooms: game id -> set of sockets
  bcasts,     \* the calls of Hub.broadcast, in the order they were entered
  sending,    \* the broadcasts awaiting a send, in the order they began it
  chats,      \* number of chat requests so far
  blocking,   \* the request inside a blocking engine call, 0 when none
  was_queued, \* what the last POST /matchmaking/cancel returned, if any
  lobbies,    \* participant -> the LobbyWidget of its desktop client
  lobby       \* the LobbyService singleton and the last get_messages call

\* The state of the game coordinator.
gameVars == <<games, players, req, sess, rejected, published, rateCalls>>

\* The state of the matchmaking service.
mmVars == <<ranked_q, free_q, calls, was_queued>>

\* The state of the broadcast hub.
hubVars == <<socks, rooms, bcasts, sending, chats>>

vars == <<games, players, req, sess, rejected, published, rateCalls,
          stockfish_path, ranked_q, free_q, calls,
          socks, rooms, bcasts, sending, chats, blocking, was_queued,
          lobbies, lobby>>

\* The rows of table games (db/models.py:33-45).
GameRows ==
  [ ranked : BOOLEAN, white_id : Players, black_id : Players,
    fen : {"startpos"} \cup Boards,
    pgn : Seq({e[3] : e \in Edges}),
    status : {"waiting", "active", "ended"},
    result : {None, "1-0", "0-1", "1/2-1/2"},
    end_reason : {None, "checkmate", "stalemate", "insufficient_material"} ]

TypeOK ==
  /\ DOMAIN games \subseteq GameIds \cup ParGameIds \cup 1..MaxCalls
  /\ \A id \in DOMAIN games : games[id] \in GameRows
  /\ DOMAIN players \subseteq Players
  /\ \A p \in DOMAIN players :
       players[p] \in [name : PlayerNames, rating : Int,
                       wins : Nat, losses : Nat, draws : Nat]
  /\ Len(req) <= MaxRequests
  /\ \A r \in DOMAIN req :
       /\ req[r].player \in Players
       /\ req[r].game_id \in GameIds \cup ParGameIds
       /\ req[r].applied \subseteq {"startpos"} \cup Boards
       /\ req[r].depth \in Nat
       /\ req[r].pc \in {"broadcast", "done"}
       /\ req[r].code \in {0, 200, 500}
  /\ DOMAIN sess = {r \in DOMAIN req : req[r].pc = "broadcast"}
  /\ \A r \in DOMAIN sess : sess[r] \in GameRows
  /\ Len(rejected) <= 1
  /\ \A i \in DOMAIN rejected :
       rejected[i].player \in Players /\ rejected[i].code \in {400, 403, 404}
  /\ published.n \in Nat
  /\ DOMAIN rateCalls = DOMAIN games
  /\ stockfish_path \in {None, "stockfish"}
  /\ ranked_q \in Seq(Players)
  /\ free_q \in Seq(Players)
  /\ Len(calls) <= MaxCalls
  /\ \A c \in DOMAIN calls :
       /\ calls[c].player \in Players
       /\ calls[c].ranked \in BOOLEAN
       /\ calls[c].vs_system \in BOOLEAN
       /\ calls[c].pc \in {"find_bot", "create_bot", "create_game", "done", "failed"}
       /\ calls[c].bot \in Players \cup {0}
       /\ calls[c].status \in {None, "active", "waiting"}
       /\ calls[c].game_id \in Nat
  /\ Len(socks) <= MaxSocks
  /\ \A i \in DOMAIN socks :
       /\ socks[i].client \in Clients
       /\ socks[i].game_id \in RoomIds
       /\ socks[i].up \in BOOLEAN
       /\ socks[i].serving \in BOOLEAN
       /\ socks[i].stalled \in BOOLEAN
       /\ socks[i].inbox \in Seq(1..MaxPublish)
  /\ rooms \in [RoomIds -> SUBSET DOMAIN socks]
  /\ Len(bcasts) <= MaxPublish
  /\ \A k \in DOMAIN bcasts :
       /\ bcasts[k].game_id \in RoomIds
       /\ bcasts[k].kind \in {"move", "chat"}
       /\ bcasts[k].owner \in 0..MaxRequests
       /\ bcasts[k].snapshot \in Seq(DOMAIN socks)
       /\ bcasts[k].pos \in 1..(Len(bcasts[k].snapshot) + 1)
       /\ bcasts[k].dead \subseteq DOMAIN socks
       /\ bcasts[k].pc \in {"send", "done"}
  /\ sending \in Seq(DOMAIN bcasts)
  /\ chats \in 0..MaxChats
  /\ blocking \in 0..MaxRequests
  /\ was_queued \in {<<>>, <<TRUE>>, <<FALSE>>}
  /\ lobbies \in [Humans -> [polling : BOOLEAN, thread : {"none", "check", "call"},
                              ranked : BOOLEAN, told : SUBSET Nat,
                              cancelled : BOOLEAN]]
  /\ lobby.next_id \in Nat \ {0}
  /\ lobby.messages \in Seq(Nat \ {0})
  /\ Len(lobby.got) <= 1

\* ------------------------------------------------------------------ helpers
\* desktop_gui/ui/lobby.py:152-161: a LobbyWidget as constructed.  `thread`
\* is where the poll thread of _start_polling stands, `told` the game ids
\* the client was given in matchmaking responses, `cancelled` whether its
\* last matchmaking action was Cancel Search.
NewLobby ==
  [polling |-> FALSE, thread |-> "none", ranked |-> TRUE, told |-> {},
   cancelled |-> FALSE]

\* services/lobby_service.py:25-28: LobbyService as constructed; a message is
\* named by its id.  `got` is the last get_messages call and its answer.
NewLobbyService == [messages |-> <<>>, next_id |-> 1, got |-> <<>>]

\* Mutant of end_game_if_needed: the stalemate branch sets the status and
\* the end-reason and leaves the result unset.
end_game_without_draw_result(g) ==
  LET meta == status_flags(g.fen)
      b == board_from_fen_or_start(g.fen) IN
  IF meta.is_checkmate
    THEN [g EXCEPT !.status = "ended",
                   !.result = IF Turn(b) THEN "0-1" ELSE "1-0",
                   !.end_reason = "checkmate"]
  ELSE IF meta.is_stalemate
    THEN [g EXCEPT !.status = "ended", !.end_reason = "stalemate"]
  ELSE IF meta.insufficient
    THEN [g EXCEPT !.status = "ended", !.result = "1/2-1/2",
                   !.end_reason = "insufficient_material"]
  ELSE g

\* Mutant of end_game_if_needed: checkmate is awarded to the side to move.
end_game_mated_side_wins(g) ==
  LET meta == status_flags(g.fen)
      b == board_from_fen_or_start(g.fen) IN
  IF meta.is_checkmate
    THEN [g EXCEPT !.status = "ended",
                   !.result = IF Turn(b) THEN "1-0" ELSE "0-1",
                   !.end_reason = "checkmate"]
  ELSE IF meta.is_stalemate
    THEN [g EXCEPT !.status = "ended", !.result = "1/2-1/2",
                   !.end_reason = "stalemate"]
  ELSE IF meta.insufficient
    THEN [g EXCEPT !.status = "ended", !.result = "1/2-1/2",
                   !.end_reason = "insufficient_material"]
  ELSE g

\* games.py:31-51
end_game_if_needed(g) ==
  LET meta == status_flags(g.fen)
      b == board_from_fen_or_start(g.fen) IN
  IF meta.is_checkmate
    THEN [g EXCEPT !.status = "ended",
                   !.result = IF Turn(b) THEN "0-1" ELSE "1-0",
                   !.end_reason = "checkmate"]
  ELSE IF meta.is_stalemate
    THEN [g EXCEPT !.status = "ended", !.result = "1/2-1/2",
                   !.end_reason = "stalemate"]
  ELSE IF meta.insufficient
    THEN [g EXCEPT !.status = "ended", !.result = "1/2-1/2",
                   !.end_reason = "insufficient_material"]
  ELSE g

\* The outcomes update_after_game passes to the rating library, doubled:
\* 1, 0.5 and 0 (rating_glicko2.py:8-17).
Win == 2
Draw == 1
Loss == 0

\* glicko2.Player.update_player for one game: the library the service
\* imports (rating_glicko2.py:1) moves the rating by a positive factor
\* times (outcome - expected score), and the expected score lies strictly
\* between 0 and 1 and grows with the rating's lead over the opponent's.
\* Ratings are integers here and the step is 2 * outcome - e with
\* e = 1, 2, 3 for a lower, equal and higher rating than the opponent: a
\* win raises the rating, a loss lowers it, a draw moves it towards the
\* opponent's.  The deviation and the volatility are left out.
update_player(rating, opponent, outcome) ==
  LET e == IF rating < opponent THEN 1 ELSE IF rating = opponent THEN 2 ELSE 3 IN
  rating + 2 * outcome - e

\* rating_glicko2.py:3-21.  w and b are the library's players, made from
\* the two rows; w is updated first and b is updated against w as updated
\* (lines 8-9, 12-13, 16-17); the counters are incremented on the rows, and
\* the ratings are written back, White's first (lines 20-21).  When both
\* slots hold the same account the two rows are one object.
update_after_game(pl, white, black, result) ==
  LET w == update_player(pl[white].rating, pl[black].rating,
                         IF result = "1-0" THEN Win
                         ELSE IF result = "0-1" THEN Loss ELSE Draw)
      b == update_player(pl[black].rating, w,
                         IF result = "1-0" THEN Loss
                         ELSE IF result = "0-1" THEN Win ELSE Draw)
      p1 == IF result = "1-0" THEN [pl EXCEPT ![white].wins = @ + 1]
            ELSE IF result = "0-1" THEN [pl EXCEPT ![white].losses = @ + 1]
            ELSE [pl EXCEPT ![white].draws = @ + 1]
      p2 == IF result = "1-0" THEN [p1 EXCEPT ![black].losses = @ + 1]
            ELSE IF result = "0-1" THEN [p1 EXCEPT ![black].wins = @ + 1]
            ELSE [p1 EXCEPT ![black].draws = @ + 1]
      p3 == [p2 EXCEPT ![white].rating = w] IN
  [p3 EXCEPT ![black].rating = b]

\* Mutant of rates: the test of g.ranked is missing.
rates_any_game(g) ==
  /\ g.status = "ended"
  /\ g.white_id \in Players
  /\ g.black_id \in Players
  /\ g.result # None

\* games.py:54-59: the guard of maybe_rate.
rates(g) ==
  /\ g.ranked
  /\ g.status = "ended"
  /\ g.white_id \in Players
  /\ g.black_id \in Players
  /\ g.result # None

maybe_rate(pl, g) ==
  IF rates(g) THEN update_after_game(pl, g.white_id, g.black_id, g.result) ELSE pl

\* db.commit(): the UPDATE sets the columns whose value differs from the one
\* the session loaded; the other columns of the stored row are left alone.
Flush(stored, loaded, now) ==
  [c \in DOMAIN stored |-> IF now[c] # loaded[c] THEN now[c] ELSE stored[c]]

\* Mutant of MovePayload: the event carries an empty move-log.
MovePayload_without_log(g, id, uci) ==
  [type |-> "move", game_id |-> id, fen |-> g.fen, pgn |-> <<>>,
   meta |-> status_flags(g.fen), uci |-> uci]

\* games.py:179 and 116: the payload of a move event.
MovePayload(g, id, uci) ==
  [type |-> "move", game_id |-> id, fen |-> g.fen, pgn |-> g.pgn,
   meta |-> status_flags(g.fen), uci |-> uci]

\* games.py:180 and 114: hub.broadcast(g.id, payload) is called.
Publish(payload) == [n |-> published.n + 1, last |-> <<payload>>]

\* ---------------------------------------------------------------- new games
\* Mutant of NewGame: the row is a placeholder that waits for its players.
NewGame_placeholder(ranked, white, black) ==
  [ranked |-> ranked, white_id |-> white, black_id |-> black,
   fen |-> "startpos", pgn |-> <<>>, status |-> "waiting",
   result |-> None, end_reason |-> None]

\* matchmaking_service.py:90-100 and 130-140: Game(ranked, white_id,
\* black_id, fen="startpos", status="active"); pgn, result and end_reason
\* take the column defaults of db/models.py:40-44.
NewGame(ranked, white, black) ==
  [ranked |-> ranked, white_id |-> white, black_id |-> black,
   fen |-> "startpos", pgn |-> <<>>, status |-> "active",
   result |-> None, end_reason |-> None]

NextGameId == Cardinality(DOMAIN games) + 1

\* matchmaking_service.py:71-107: vs_system pairs the requester with the
\* first bot account of the players table, colours drawn at random.
EnqueueVsSystem(p, ranked) ==
  /\ NextGameId \in GameIds
  /\ LET bot == CHOOSE b \in Bots : \A o \in Bots : b <= o IN
     \E pair \in {<<p, bot>>, <<bot, p>>} :
       games' = [id \in DOMAIN games \cup {NextGameId} |->
                   IF id = NextGameId THEN NewGame(ranked, pair[1], pair[2])
                   ELSE games[id]]
  /\ rateCalls' = [id \in DOMAIN games \cup {NextGameId} |->
                     IF id = NextGameId THEN 0 ELSE rateCalls[id]]
  /\ UNCHANGED <<players, req, sess, rejected, published>>

\* matchmaking_service.py:125-147: the second of two queued players creates
\* the game for the pair popped from the queue, colours drawn at random.
EnqueueMatch(p1, p2, ranked) ==
  /\ p1 # p2
  /\ NextGameId \in GameIds
  /\ \E pair \in {<<p1, p2>>, <<p2, p1>>} :
       games' = [id \in DOMAIN games \cup {NextGameId} |->
                   IF id = NextGameId THEN NewGame(ranked, pair[1], pair[2])
                   ELSE games[id]]
  /\ rateCalls' = [id \in DOMAIN games \cup {NextGameId} |->
                     IF id = NextGameId THEN 0 ELSE rateCalls[id]]
  /\ UNCHANGED <<players, req, sess, rejected, published>>

\* --------------------------------------------------------------- submitMove
\* Mutant of MoveCheck: the turn check for Black's turn is missing.
MoveCheck_white_turn_only(p, id, uci) ==
  IF id \notin DOMAIN games \/ games[id].status # "active" THEN 404
  ELSE LET g == games[id]
           is_white_turn == Turn(board_from_fen_or_start(g.fen)) IN
       IF is_white_turn /\ p # g.white_id THEN 403
       ELSE IF apply_raises(g.fen, uci) THEN 400
       ELSE 200

\* Mutant of MoveCheck: the ValueError of apply_uci_move is not caught and
\* surfaces as a server error.
MoveCheck_uncaught(p, id, uci) ==
  IF id \notin DOMAIN games \/ games[id].status # "active" THEN 404
  ELSE LET g == games[id]
           is_white_turn == Turn(board_from_fen_or_start(g.fen)) IN
       IF is_white_turn /\ p # g.white_id THEN 403
       ELSE IF (~is_white_turn) /\ p # g.black_id THEN 403
       ELSE IF apply_raises(g.fen, uci) THEN 500
       ELSE 200

\* Mutant of MoveCheck: only a missing game is refused, the status is not
\* looked at.
MoveCheck_missing_only(p, id, uci) ==
  IF id \notin DOMAIN games THEN 404
  ELSE LET g == games[id]
           is_white_turn == Turn(board_from_fen_or_start(g.fen)) IN
       IF is_white_turn /\ p # g.white_id THEN 403
       ELSE IF (~is_white_turn) /\ p # g.black_id THEN 403
       ELSE IF apply_raises(g.fen, uci) THEN 400
       ELSE 200

\* games.py:155-171: the HTTP status the checks of `move` end with, 200 when
\* the move passes them all.
MoveCheck(p, id, uci) ==
  IF id \notin DOMAIN games \/ games[id].status # "active" THEN 404
  ELSE LET g == games[id]
           is_white_turn == Turn(board_from_fen_or_start(g.fen)) IN
       IF is_white_turn /\ p # g.white_id THEN 403
       ELSE IF (~is_white_turn) /\ p # g.black_id THEN 403
       ELSE IF apply_raises(g.fen, uci) THEN 400
       ELSE 200

\* games.py:173-180: apply, detect the end, rate, commit, publish.  `loaded`
\* is the row the session holds, `id` its game.
Applied(loaded, uci) ==
  end_game_if_needed([loaded EXCEPT !.fen = apply_new_fen(loaded.fen, uci),
                                    !.pgn = Append(@, apply_san(loaded.fen, uci))])

\* games.py:146-180
SubmitMove(p, id, uci) ==
  LET code == MoveCheck(p, id, uci) IN
  IF code # 200
    THEN /\ rejected' = <<[player |-> p, code |-> code]>>
         /\ UNCHANGED <<games, players, req, sess, published, rateCalls>>
    ELSE /\ Len(req) < MaxRequests
         /\ LET loaded == games[id]
                now == Applied(loaded, uci)
                stored == Flush(games[id], loaded, now)
                r == Len(req) + 1 IN
            /\ games' = [games EXCEPT ![id] = stored]
            /\ players' = maybe_rate(players, now)
            /\ rateCalls' = [rateCalls EXCEPT ![id] = @ + (IF rates(now) THEN 1 ELSE 0)]
            /\ published' = Publish(MovePayload(stored, id, uci))
            /\ req' = Append(req, [player |-> p, game_id |-> id, uci |-> uci,
                                   applied |-> {loaded.fen}, depth |-> 0,
                                   pc |-> "broadcast", code |-> 0])
            /\ sess' = [s \in DOMAIN sess \cup {r} |->
                          IF s = r THEN stored ELSE sess[s]]
         /\ UNCHANGED rejected

\* ------------------------------------------------------ automated-move step
\* games.py:62-68: _random_legal_move_uci, "" on a board without moves.
random_legal_move_uci(fen) ==
  LET m == LegalMoves(board_from_fen_or_start(fen)) IN
  IF m = {} THEN {""} ELSE m

\* stockfish_service.py:12-22: what stockfish.best_move_uci(g.fen) does.
\* Without an executable at STOCKFISH_PATH it raises FileNotFoundError.
\* With one it raises (the engine process fails, the engine reports no move
\* and result.move.uci() fails) or returns a UCI string, which the engine
\* does not promise to be legal for the board.
EngineRaises == "raise"
best_move_uci(fen) ==
  LET b == board_from_fen_or_start(fen) IN
  IF stockfish_path = None THEN {EngineRaises}
  ELSE {EngineRaises} \cup LegalMoves(b)
         \cup {CHOOSE u \in UciAlphabet : u \notin LegalMoves(b)}

\* Mutant of SystemPick: a failed engine call is not replaced by a random
\* move, the step gives up.
SystemPick_no_fallback(fen, out) ==
  IF out = EngineRaises THEN {""}
  ELSE IF apply_raises(fen, out) THEN random_legal_move_uci(fen)
  ELSE {out}

\* games.py:91-106: the UCI strings the step ends up with when the engine
\* call ended with `out`.
SystemPick(fen, out) ==
  IF out = EngineRaises THEN random_legal_move_uci(fen)
  ELSE IF apply_raises(fen, out) THEN random_legal_move_uci(fen)
  ELSE {out}

SystemUci(fen) == UNION {SystemPick(fen, out) : out \in best_move_uci(fen)}

\* Mutant of bot_to_move: only the second-mover slot is tested.
bot_to_move_black_only(g) ==
  /\ g.status = "active"
  /\ g.white_id \in Players
  /\ g.black_id \in Players
  /\ (~Turn(board_from_fen_or_start(g.fen))) /\ is_bot(g.black_id)

\* games.py:77-88: maybe_play_system_move goes on to pick a move.
bot_to_move(g) ==
  /\ g.status = "active"
  /\ g.white_id \in Players
  /\ g.black_id \in Players
  /\ LET turn == Turn(board_from_fen_or_start(g.fen)) IN
     (turn /\ is_bot(g.white_id)) \/ ((~turn) /\ is_bot(g.black_id))

\* The participant in the mover-to-act slot of row g.
Mover(g) == IF Turn(board_from_fen_or_start(g.fen)) THEN g.white_id ELSE g.black_id

\* The request returns its payload (games.py:186); get_db closes the session.
Return(r) ==
  /\ req' = [req EXCEPT ![r].pc = "done", ![r].code = 200]
  /\ sess' = [s \in DOMAIN sess \ {r} |-> sess[s]]
  /\ UNCHANGED <<games, players, rejected, published, rateCalls>>

\* games.py:108-117 on the row cached in the session of request r.
PlaySystemMove(r, uci) ==
  LET id == req[r].game_id
      loaded == sess[r]
      now == Applied(loaded, uci)
      stored == Flush(games[id], loaded, now) IN
  /\ games' = [games EXCEPT ![id] = stored]
  /\ players' = maybe_rate(players, now)
  /\ rateCalls' = [rateCalls EXCEPT ![id] = @ + (IF rates(now) THEN 1 ELSE 0)]
  /\ published' = Publish(MovePayload(stored, id, uci))
  /\ sess' = [sess EXCEPT ![r] = stored]
  /\ req' = [req EXCEPT ![r].applied = @ \cup {loaded.fen}, ![r].depth = @ + 1]
  /\ UNCHANGED rejected

\* games.py:183-186 and 120-121 with 71-117: the request resumes after the
\* broadcast it awaited.
AfterBroadcast(r) ==
  /\ r \in DOMAIN req
  /\ req[r].pc = "broadcast"
  /\ IF bot_to_move(sess[r])
       THEN \E out \in best_move_uci(sess[r].fen) :
              \E uci \in SystemPick(sess[r].fen, out) :
                IF uci = "" THEN Return(r) ELSE PlaySystemMove(r, uci)
       ELSE Return(r)

\* ------------------------------------------------------------ specification
\* The board a client sees when it fetches the game (games.py:126-143).
StoredBoard(id) ==
  IF id \in DOMAIN games THEN board_from_fen_or_start(games[id].fen)
  ELSE InitialBoard

Init ==
  /\ games = <<>>
  /\ players = [p \in Players |-> NewPlayer(RegisteredName(p))]
  /\ req = <<>>
  /\ sess = <<>>
  /\ rejected = <<>>
  /\ published = [n |-> 0, last |-> <<>>]
  /\ rateCalls = <<>>
  /\ stockfish_path \in {None, "stockfish"}
  /\ ranked_q = <<>>
  /\ free_q = <<>>
  /\ calls = <<>>
  /\ socks = <<>>
  /\ rooms = [g \in RoomIds |-> {}]
  /\ bcasts = <<>>
  /\ sending = <<>>
  /\ chats = 0
  /\ blocking = 0
  /\ was_queued = <<>>
  /\ lobbies = [p \in Humans |-> NewLobby]
  /\ lobby = NewLobbyService

\* What the coordinator's handlers leave alone.
otherVars == <<stockfish_path, ranked_q, free_q, calls,
               socks, rooms, bcasts, sending, chats, blocking, was_queued,
               lobbies, lobby>>

Next ==
  \/ /\ \E p \in Players, ranked \in BOOLEAN : EnqueueVsSystem(p, ranked)
     /\ UNCHANGED otherVars
  \/ /\ \E p1 \in Players, p2 \in Players, ranked \in BOOLEAN :
          EnqueueMatch(p1, p2, ranked)
     /\ UNCHANGED otherVars
  \/ /\ \E p \in Players, id \in GameIds :
          \E uci \in UciInputs(StoredBoard(id)) : SubmitMove(p, id, uci)
     /\ UNCHANGED otherVars
  \/ /\ \E r \in 1..MaxRequests : AfterBroadcast(r)
     /\ UNCHANGED otherVars

Spec == Init /\ [][Next]_vars

\* A handler that awaits a broadcast is resumed by the event loop; requests
\* and enqueues arrive when clients send them, if ever.
FairSpec ==
  Spec /\ \A r \in 1..MaxRequests :
            WF_vars(AfterBroadcast(r) /\ UNCHANGED otherVars)

\* ------------------------------------------------- matchmaking, per thread
\* POST /matchmaking/queue is a plain `def` endpoint (api/matchmaking.py:
\* 17-28): the framework runs it on a worker thread, so several calls of
\* mm.enqueue run in parallel.  The player-versus-player branch works under
\* self._lock from its first statement to its return and is one step; the
\* vs_system branch takes no lock and is a chain of steps, one per database
\* statement.

\* A game row is inserted with the next autoincrement key.
InsertGame(row) ==
  LET id == Cardinality(DOMAIN games) + 1 IN
  /\ games' = [g \in DOMAIN games \cup {id} |-> IF g = id THEN row ELSE games[g]]
  /\ rateCalls' = [g \in DOMAIN games \cup {id} |-> IF g = id THEN 0 ELSE rateCalls[g]]

\* api/matchmaking.py:24-26 and matchmaking_service.py:71: an authenticated
\* vs_system call enters mm.enqueue.
QueueVsSystem(p, ranked) ==
  /\ p \in DOMAIN players
  /\ Len(calls) < MaxCalls
  /\ calls' = Append(calls, [player |-> p, ranked |-> ranked, vs_system |-> TRUE,
                             pc |-> "find_bot", bot |-> 0,
                             status |-> None, game_id |-> 0])
  /\ UNCHANGED <<games, rateCalls, players, ranked_q, free_q>>

\* matchmaking_service.py:72-73: the first account with is_bot set.
FindBot(c) ==
  /\ c \in DOMAIN calls
  /\ calls[c].pc = "find_bot"
  /\ LET bots == {b \in DOMAIN players : is_bot(b)} IN
     IF bots = {}
       THEN calls' = [calls EXCEPT ![c].pc = "create_bot"]
       ELSE calls' = [calls EXCEPT ![c].pc = "create_game",
                                   ![c].bot = CHOOSE b \in bots : \A o \in bots : b <= o]
  /\ UNCHANGED <<games, rateCalls, players, ranked_q, free_q>>

\* matchmaking_service.py:74-87: the system account is inserted under the
\* name SystemBotName.  The commit raises IntegrityError when the name is
\* taken (db/models.py:13); mm.enqueue does not catch it and the endpoint
\* turns only ValueError into a 400 (api/matchmaking.py:27-28), so the call
\* ends as a server error.
CreateBot(c) ==
  /\ c \in DOMAIN calls
  /\ calls[c].pc = "create_bot"
  /\ IF \E q \in DOMAIN players : players[q].name = SystemBotName
       THEN /\ calls' = [calls EXCEPT ![c].pc = "failed"]
            /\ UNCHANGED players
       ELSE LET id == Cardinality(DOMAIN players) + 1 IN
            /\ players' = [q \in DOMAIN players \cup {id} |->
                             IF q = id THEN NewPlayer(SystemBotName) ELSE players[q]]
            /\ calls' = [calls EXCEPT ![c].pc = "create_game", ![c].bot = id]
  /\ UNCHANGED <<games, rateCalls, ranked_q, free_q>>

\* matchmaking_service.py:89-107
CreateGame(c) ==
  /\ c \in DOMAIN calls
  /\ calls[c].pc = "create_game"
  /\ \E pair \in {<<calls[c].player, calls[c].bot>>, <<calls[c].bot, calls[c].player>>} :
       InsertGame(NewGame(calls[c].ranked, pair[1], pair[2]))
  /\ calls' = [calls EXCEPT ![c].pc = "done", ![c].status = "active",
                            ![c].game_id = Cardinality(DOMAIN games) + 1]
  /\ UNCHANGED <<players, ranked_q, free_q>>

\* Mutant of QueueOf: both kinds of request share the ranked queue.
QueueOf_ranked_only(ranked) == ranked_q

\* matchmaking_service.py:110
QueueOf(ranked) == IF ranked THEN ranked_q ELSE free_q

\* The queue of the request is replaced by q, the other one is left alone.
SetQueue(ranked, q) ==
  IF ranked THEN ranked_q' = q /\ UNCHANGED free_q
  ELSE free_q' = q /\ UNCHANGED ranked_q

\* The elements of a sequence.
Range(q) == {q[i] : i \in DOMAIN q}

\* Mutant of AlreadyQueued: the duplicate test is missing.
AlreadyQueued_never(p, q) == FALSE

\* matchmaking_service.py:114
AlreadyQueued(p, q) == p \in Range(q)

\* Mutant of AfterMatch: the second participant of the pair is read from
\* the queue and left in it.
AfterMatch_one_pop(q1) == SubSeq(q1, 2, Len(q1))

\* matchmaking_service.py:126-127: the queue after the two popleft calls.
AfterMatch(q1) == SubSeq(q1, 3, Len(q1))

\* Mutant of CanMatch: a pair is taken only when a third entry arrives.
CanMatch_three(q1) == Len(q1) >= 3

\* matchmaking_service.py:125: `if len(q) >= 2`, after the append.
CanMatch(q1) == Len(q1) >= 2

\* matchmaking_service.py:112-155: what the player-versus-player branch
\* returns, the status and the game id (0 for None).
PvPReturn(p, ranked) ==
  LET q == QueueOf(ranked) IN
  IF ~AlreadyQueued(p, q) /\ CanMatch(Append(q, p))
    THEN [status |-> "active", game_id |-> Cardinality(DOMAIN games) + 1]
    ELSE [status |-> "waiting", game_id |-> 0]

\* matchmaking_service.py:110-140: what the player-versus-player branch does
\* to the queues and the games table, under the lock.
PvPQueues(p, ranked) ==
  LET q == QueueOf(ranked) IN
  IF AlreadyQueued(p, q)
    THEN UNCHANGED <<games, rateCalls, ranked_q, free_q>>
  ELSE LET q1 == Append(q, p) IN
       IF CanMatch(q1)
         THEN /\ \E pair \in {<<q1[1], q1[2]>>, <<q1[2], q1[1]>>} :
                   InsertGame(NewGame(ranked, pair[1], pair[2]))
              /\ SetQueue(ranked, AfterMatch(q1))
         ELSE /\ SetQueue(ranked, q1)
              /\ UNCHANGED <<games, rateCalls>>

\* api/matchmaking.py:24-26 and matchmaking_service.py:109-155: a call
\* without vs_system, under the lock.
EnqueuePvP(p, ranked) ==
  /\ p \in DOMAIN players
  /\ Len(calls) < MaxCalls
  /\ PvPQueues(p, ranked)
  /\ calls' = Append(calls, [player |-> p, ranked |-> ranked, vs_system |-> FALSE,
                             pc |-> "done", bot |-> 0,
                             status |-> PvPReturn(p, ranked).status,
                             game_id |-> PvPReturn(p, ranked).game_id])
  /\ UNCHANGED players

\* deque.remove(p): q without the first occurrence of p.
Without(q, p) ==
  IF p \notin Range(q) THEN q
  ELSE LET i == CHOOSE j \in DOMAIN q : q[j] = p /\ \A k \in 1..(j - 1) : q[k] # p IN
       SubSeq(q, 1, i - 1) \o SubSeq(q, i + 1, Len(q))

\* Mutant of Cancel: the second test is an elif, a participant found in the
\* ranked queue is left in the free queue.
Cancel_first_queue_only(p) ==
  /\ p \in DOMAIN players
  /\ was_queued' = <<p \in Range(ranked_q) \/ p \in Range(free_q)>>
  /\ ranked_q' = Without(ranked_q, p)
  /\ free_q' = IF p \in Range(ranked_q) THEN free_q ELSE Without(free_q, p)
  /\ UNCHANGED <<games, rateCalls, players, calls>>

\* api/matchmaking.py:51-59 and matchmaking_service.py:46-56, under the
\* lock: the participant is removed from each queue that holds it, and the
\* call returns whether one did.
Cancel(p) ==
  /\ p \in DOMAIN players
  /\ was_queued' = <<p \in Range(ranked_q) \/ p \in Range(free_q)>>
  /\ ranked_q' = Without(ranked_q, p)
  /\ free_q' = Without(free_q, p)
  /\ UNCHANGED <<games, rateCalls, players, calls>>

\* The accounts registered before matchmaking starts: the two humans, no
\* bot account yet; or the two humans, one of whom registered under the
\* name the service gives its system account.
MatchInit ==
  /\ games = <<>>
  /\ rateCalls = <<>>
  /\ players \in { [p \in Humans |-> NewPlayer(RegisteredName(p))],
                   [p \in Humans |-> NewPlayer(IF p = 1 THEN SystemBotName
                                               ELSE RegisteredName(p))] }
  /\ req = <<>>
  /\ sess = <<>>
  /\ rejected = <<>>
  /\ published = [n |-> 0, last |-> <<>>]
  /\ stockfish_path = None
  /\ ranked_q = <<>>
  /\ free_q = <<>>
  /\ calls = <<>>
  /\ socks = <<>>
  /\ rooms = [g \in RoomIds |-> {}]
  /\ bcasts = <<>>
  /\ sending = <<>>
  /\ chats = 0
  /\ blocking = 0
  /\ was_queued = <<>>
  /\ lobbies = [p \in Humans |-> NewLobby]
  /\ lobby = NewLobbyService

\* What matchmaking leaves alone.
mmOtherVars == <<req, sess, rejected, published, stockfish_path,
                 socks, rooms, bcasts, sending, chats, blocking, lobbies, lobby>>

MatchNext ==
  \/ /\ \E p \in Players, ranked \in BOOLEAN : QueueVsSystem(p, ranked)
     /\ UNCHANGED <<mmOtherVars, was_queued>>
  \/ /\ \E c \in 1..MaxCalls : FindBot(c)
     /\ UNCHANGED <<mmOtherVars, was_queued>>
  \/ /\ \E c \in 1..MaxCalls : CreateBot(c)
     /\ UNCHANGED <<mmOtherVars, was_queued>>
  \/ /\ \E c \in 1..MaxCalls : CreateGame(c)
     /\ UNCHANGED <<mmOtherVars, was_queued>>
  \/ /\ \E p \in Players, ranked \in BOOLEAN : EnqueuePvP(p, ranked)
     /\ UNCHANGED <<mmOtherVars, was_queued>>
  \/ /\ \E p \in Players : Cancel(p)
     /\ UNCHANGED mmOtherVars

MatchSpec == MatchInit /\ [][MatchNext]_vars

\* ------------------------------------------------------------ broadcast hub
\* realtime/ws_hub.py.  A WebSocket object is a record of `socks`, named by
\* its index: which client opened it, for which game, whether its transport
\* is up, whether its ws_game handler is still serving it, whether the
\* client has stopped reading it, and what it was sent.  Hub.rooms maps a
\* game id to a set of them; an empty set stands for a missing key (join
\* creates the key, leave pops the key of an empty room).
\*
\* Hub.broadcast copies the room into a list and awaits ws.send_json for one
\* socket after the other, so a broadcast in progress is a record of
\* `bcasts`: the list, the position in it and the sockets whose send raised.
\* Sends awaited on the same socket complete in the order they were issued
\* (`sending` keeps the broadcasts in the order they reached their current
\* socket).  list(set) is taken in the order of the socket indices.

\* What the hub and the handlers that publish leave alone.
hubOtherVars == <<stockfish_path, ranked_q, free_q, calls, blocking, was_queued,
                  lobbies, lobby>>

\* The sequence of the elements of a set of numbers, ascending.
RECURSIVE Ordered(_)
Ordered(S) ==
  IF S = {} THEN <<>>
  ELSE LET m == CHOOSE x \in S : \A y \in S : x <= y IN <<m>> \o Ordered(S \ {m})

\* games.py:202: the payload of a chat event.
ChatPayload(p, text) == [type |-> "chat", player_id |-> p, text |-> text]

\* Mutant of RoomSnapshot: the event goes to the sockets of every room.
RoomSnapshot_all_rooms(game_id) == Ordered(UNION {rooms[g] : g \in DOMAIN rooms})

\* ws_hub.py:25: list(self.rooms.get(game_id, set()))
RoomSnapshot(game_id) == Ordered(rooms[game_id])

\* ws_hub.py:23-25: hub.broadcast(game_id, payload) is entered by the
\* handler `owner` (a move request, or 0 for a chat request).
StartBroadcast(game_id, kind, owner) ==
  LET snap == RoomSnapshot(game_id)
      k == Len(bcasts) + 1 IN
  /\ bcasts' = Append(bcasts, [game_id |-> game_id, kind |-> kind, owner |-> owner,
                               snapshot |-> snap, pos |-> 1, dead |-> {},
                               pc |-> IF snap = <<>> THEN "done" ELSE "send"])
  /\ sending' = IF snap = <<>> THEN sending ELSE Append(sending, k)
  /\ UNCHANGED <<socks, rooms>>

\* The socket broadcast k is sending to.
Target(k) == bcasts[k].snapshot[bcasts[k].pos]

\* Broadcast k awaits a send that no earlier send on the same socket is
\* ahead of.
CanSend(k) ==
  /\ k \in DOMAIN bcasts
  /\ bcasts[k].pc = "send"
  /\ \A i \in DOMAIN sending :
       sending[i] = k => \A j \in 1..(i - 1) : Target(sending[j]) # Target(k)

\* Mutant of leave: the room is popped without the emptiness test.
leave_pops_room(rms, game_id, ws) == [rms EXCEPT ![game_id] = {}]

\* ws_hub.py:12-21: Hub.leave.  set.discard removes ws when it is there and
\* does nothing when it is not; a failing ws.close() is swallowed; the key
\* of a room left empty is popped (the empty set stands for it).
leave(rms, game_id, ws) == [rms EXCEPT ![game_id] = @ \ {ws}]

\* ws_hub.py:31-32: leave() for every socket of `dead`.
RECURSIVE LeaveAll(_, _, _)
LeaveAll(rms, game_id, dead) ==
  IF dead = {} THEN rms
  ELSE LET ws == CHOOSE w \in dead : \A o \in dead : w <= o IN
       LeaveAll(leave(rms, game_id, ws), game_id, dead \ {ws})

\* Mutant of AfterSend: the iteration stops at the first send that raised.
AfterSend_stop_on_failure(k, dead, socks1) ==
  LET b == bcasts[k]
      rest == SelectSeq(sending, LAMBDA x : x # k) IN
  IF b.pos = Len(b.snapshot) \/ dead # {}
    THEN /\ bcasts' = [bcasts EXCEPT ![k].pos = b.pos + 1, ![k].dead = dead,
                                     ![k].pc = "done"]
         /\ sending' = rest
         /\ rooms' = LeaveAll(rooms, b.game_id, dead)
         /\ socks' = [i \in DOMAIN socks1 |->
                        IF i \in dead THEN [socks1[i] EXCEPT !.up = FALSE] ELSE socks1[i]]
    ELSE /\ bcasts' = [bcasts EXCEPT ![k].pos = b.pos + 1, ![k].dead = dead]
         /\ sending' = Append(rest, k)
         /\ socks' = socks1
         /\ UNCHANGED rooms

\* ws_hub.py:25-32: the send of broadcast k has ended, `dead` are the
\* sockets whose send raised so far and socks1 the sockets after the send.
\* The loop goes on to the next socket of the list; after the last one,
\* leave() discards every dead socket from the room and closes it.
AfterSend(k, dead, socks1) ==
  LET b == bcasts[k]
      rest == SelectSeq(sending, LAMBDA x : x # k) IN
  IF b.pos = Len(b.snapshot)
    THEN /\ bcasts' = [bcasts EXCEPT ![k].pos = b.pos + 1, ![k].dead = dead,
                                     ![k].pc = "done"]
         /\ sending' = rest
         /\ rooms' = LeaveAll(rooms, b.game_id, dead)
         /\ socks' = [i \in DOMAIN socks1 |->
                        IF i \in dead THEN [socks1[i] EXCEPT !.up = FALSE] ELSE socks1[i]]
    ELSE /\ bcasts' = [bcasts EXCEPT ![k].pos = b.pos + 1, ![k].dead = dead]
         /\ sending' = Append(rest, k)
         /\ socks' = socks1
         /\ UNCHANGED rooms

\* ws_hub.py:27: ws.send_json(payload) returns, the socket has the event.
Deliver(k) ==
  /\ CanSend(k)
  /\ socks[Target(k)].up
  /\ ~socks[Target(k)].stalled
  /\ AfterSend(k, bcasts[k].dead,
               [socks EXCEPT ![Target(k)].inbox = Append(@, k)])
  /\ UNCHANGED <<gameVars, hubOtherVars, chats>>

\* ws_hub.py:28-29: ws.send_json(payload) raises, the peer is gone.
SendFails(k) ==
  /\ CanSend(k)
  /\ ~socks[Target(k)].up
  /\ AfterSend(k, bcasts[k].dead \cup {Target(k)}, socks)
  /\ UNCHANGED <<gameVars, hubOtherVars, chats>>

\* Mutant of Join: the socket that joins is sent the last event of the room.
Join_with_replay(c, g) ==
  /\ Len(socks) < MaxSocks
  /\ \A i \in DOMAIN socks : socks[i].client = c => ~socks[i].serving
  /\ LET old == {k \in DOMAIN bcasts : bcasts[k].game_id = g} IN
     socks' = Append(socks, [client |-> c, game_id |-> g, up |-> TRUE,
                             serving |-> TRUE, stalled |-> FALSE,
                             inbox |-> IF old = {} THEN <<>>
                                       ELSE <<CHOOSE k \in old : \A j \in old : j <= k>>])
  /\ rooms' = [rooms EXCEPT ![g] = @ \cup {Len(socks) + 1}]
  /\ UNCHANGED <<bcasts, sending, chats, gameVars, hubOtherVars>>

\* games.py:206-208 and ws_hub.py:8-10: client c opens a socket for game g;
\* the route does not look the game up.  A client has one socket at a time.
Join(c, g) ==
  /\ Len(socks) < MaxSocks
  /\ \A i \in DOMAIN socks : socks[i].client = c => ~socks[i].serving
  /\ socks' = Append(socks, [client |-> c, game_id |-> g, up |-> TRUE,
                             serving |-> TRUE, stalled |-> FALSE, inbox |-> <<>>])
  /\ rooms' = [rooms EXCEPT ![g] = @ \cup {Len(socks) + 1}]
  /\ UNCHANGED <<bcasts, sending, chats, gameVars, hubOtherVars>>

\* The client of socket i stops reading it: a send to it does not complete
\* while the transport stays up.
Stall(i) ==
  /\ i \in DOMAIN socks
  /\ socks[i].up
  /\ ~socks[i].stalled
  /\ socks' = [socks EXCEPT ![i].stalled = TRUE]
  /\ UNCHANGED <<rooms, bcasts, sending, chats, gameVars, hubOtherVars>>

\* The client of socket i closes it, or the network drops it.
Drop(i) ==
  /\ i \in DOMAIN socks
  /\ socks[i].up
  /\ socks' = [socks EXCEPT ![i].up = FALSE]
  /\ UNCHANGED <<rooms, bcasts, sending, chats, gameVars, hubOtherVars>>

\* games.py:209-214 and ws_hub.py:12-21: receive_text raises on the
\* disconnect and the handler leaves the room.
WsLeave(i) ==
  /\ i \in DOMAIN socks
  /\ socks[i].serving
  /\ ~socks[i].up
  /\ socks' = [socks EXCEPT ![i].serving = FALSE]
  /\ rooms' = leave(rooms, socks[i].game_id, i)
  /\ UNCHANGED <<bcasts, sending, chats, gameVars, hubOtherVars>>

\* Mutant of Chat: a game that is not active is answered like a missing one.
Chat_active_only(p, id, text) ==
  /\ p \in DOMAIN players
  /\ chats < MaxChats
  /\ chats' = chats + 1
  /\ IF id \notin DOMAIN games \/ games[id].status # "active"
       THEN /\ rejected' = <<[player |-> p, code |-> 404]>>
            /\ UNCHANGED <<published, socks, rooms, bcasts, sending>>
       ELSE /\ published' = Publish(ChatPayload(p, text))
            /\ StartBroadcast(id, "chat", 0)
            /\ UNCHANGED rejected
  /\ UNCHANGED <<games, players, req, sess, rateCalls, hubOtherVars>>

\* games.py:189-203: POST /games/{id}/chat.  The answer {"ok": True} follows
\* the broadcast and changes nothing.
Chat(p, id, text) ==
  /\ p \in DOMAIN players
  /\ chats < MaxChats
  /\ chats' = chats + 1
  /\ IF id \notin DOMAIN games
       THEN /\ rejected' = <<[player |-> p, code |-> 404]>>
            /\ UNCHANGED <<published, socks, rooms, bcasts, sending>>
       ELSE /\ published' = Publish(ChatPayload(p, text))
            /\ StartBroadcast(id, "chat", 0)
            /\ UNCHANGED rejected
  /\ UNCHANGED <<games, players, req, sess, rateCalls, hubOtherVars>>

\* games.py:146-180 with the hub: the broadcast of an accepted move starts.
HubSubmitMove(p, id, uci) ==
  /\ Len(req) < MaxHubRequests
  /\ SubmitMove(p, id, uci)
  /\ IF MoveCheck(p, id, uci) = 200
       THEN StartBroadcast(id, "move", Len(req) + 1)
       ELSE UNCHANGED <<socks, rooms, bcasts, sending>>
  /\ UNCHANGED <<chats, hubOtherVars>>

\* The broadcast request r awaits has returned.
BroadcastReturned(r) ==
  \A k \in DOMAIN bcasts : bcasts[k].owner = r => bcasts[k].pc = "done"

\* games.py:183-186 and 71-121 with the hub: the request goes on when the
\* broadcast it awaits returns, and awaits the broadcast of the automated
\* move it applies.
HubAfterBroadcast(r) ==
  /\ r \in DOMAIN req
  /\ BroadcastReturned(r)
  /\ AfterBroadcast(r)
  /\ IF published'.n # published.n
       THEN StartBroadcast(req[r].game_id, "move", r)
       ELSE UNCHANGED <<socks, rooms, bcasts, sending>>
  /\ UNCHANGED <<chats, hubOtherVars>>

\* The row of a game of a human with White against the bot account that
\* ended with 1. f3 e5 2. g4 Qh4# (games.py:173-177, 34-39).
MatedGame ==
  [NewGame(FALSE, 1, 3) EXCEPT !.fen = "F4", !.pgn = <<"f3", "e5", "g4", "Qh4#">>,
                               !.status = "ended", !.result = "0-1",
                               !.end_reason = "checkmate"]

\* One unranked game, a human with White against the bot account
\* (matchmaking_service.py:89-100), is under way or has ended; nobody
\* watches it yet.
HubInit ==
  /\ games \in {<<NewGame(FALSE, 1, 3)>>, <<MatedGame>>}
  /\ rateCalls = <<0>>
  /\ players = [p \in Players |-> NewPlayer(RegisteredName(p))]
  /\ req = <<>>
  /\ sess = <<>>
  /\ rejected = <<>>
  /\ published = [n |-> 0, last |-> <<>>]
  /\ stockfish_path = None
  /\ ranked_q = <<>>
  /\ free_q = <<>>
  /\ calls = <<>>
  /\ socks = <<>>
  /\ rooms = [g \in RoomIds |-> {}]
  /\ bcasts = <<>>
  /\ sending = <<>>
  /\ chats = 0
  /\ blocking = 0
  /\ was_queued = <<>>
  /\ lobbies = [p \in Humans |-> NewLobby]
  /\ lobby = NewLobbyService

HubNext ==
  \/ \E c \in Clients, g \in RoomIds : Join(c, g)
  \/ \E i \in 1..MaxSocks : Stall(i)
  \/ \E i \in 1..MaxSocks : Drop(i)
  \/ \E i \in 1..MaxSocks : WsLeave(i)
  \/ \E p \in Humans, id \in RoomIds : Chat(p, id, "hi")
  \/ \E id \in DOMAIN games : \E uci \in HubMoves : HubSubmitMove(Mover(games[id]), id, uci)
  \/ \E r \in 1..MaxHubRequests : HubAfterBroadcast(r)
  \/ \E k \in 1..MaxPublish : Deliver(k)
  \/ \E k \in 1..MaxPublish : SendFails(k)

HubSpec == HubInit /\ [][HubNext]_vars

\* The event loop resumes a handler whose awaited send has ended or whose
\* broadcast has returned, and delivers a disconnect to the ws_game handler.
\* Clients connect, stall, leave and send requests when they do, if ever.
FairHubSpec ==
  /\ HubSpec
  /\ \A k \in 1..MaxPublish : WF_vars(Deliver(k)) /\ WF_vars(SendFails(k))
  /\ \A r \in 1..MaxHubRequests : WF_vars(HubAfterBroadcast(r))
  /\ \A i \in 1..MaxSocks : WF_vars(WsLeave(i))

\* ------------------------------------------------- the engine call, in time
\* `move` and maybe_play_system_move are coroutines of the one event loop,
\* and stockfish.best_move_uci is a synchronous call (stockfish_service.py:
\* 19-22: SimpleEngine.popen_uci and engine.play block the calling thread).
\* From the call to its return the event loop runs nothing else: no other
\* handler starts, resumes or returns.  `blocking` is the request whose
\* handler is inside the call.

\* What the move handlers leave alone when the engine call takes time.
parOtherVars == <<stockfish_path, ranked_q, free_q, calls,
                  socks, rooms, bcasts, sending, chats, was_queued,
                  lobbies, lobby>>

\* games.py:146-180, run by the event loop when it is free.
ParSubmitMove(p, id, uci) ==
  /\ blocking = 0
  /\ SubmitMove(p, id, uci)
  /\ UNCHANGED <<blocking, parOtherVars>>

\* games.py:183-184, 77-92: the request resumes after its broadcast, finds
\* an automated participant to move and enters stockfish.best_move_uci.
EngineCall(r) ==
  /\ blocking = 0
  /\ r \in DOMAIN req
  /\ req[r].pc = "broadcast"
  /\ bot_to_move(sess[r])
  /\ blocking' = r
  /\ UNCHANGED <<gameVars, parOtherVars>>

\* games.py:92-117: the engine call returns or raises, the move is applied
\* and its broadcast is awaited.
EngineReturn(r) ==
  /\ blocking = r
  /\ AfterBroadcast(r)
  /\ blocking' = 0
  /\ UNCHANGED parOtherVars

\* games.py:183-186 and 120-121, 77-88: the request resumes after its
\* broadcast, finds no automated participant to move and returns.
ParReturn(r) ==
  /\ blocking = 0
  /\ r \in DOMAIN req
  /\ req[r].pc = "broadcast"
  /\ ~bot_to_move(sess[r])
  /\ AfterBroadcast(r)
  /\ UNCHANGED <<blocking, parOtherVars>>

\* Two unranked games are under way, each of a human with White against the
\* bot account (matchmaking_service.py:89-100), and an engine is installed.
ParInit ==
  /\ games = <<NewGame(FALSE, 1, 3), NewGame(FALSE, 2, 3)>>
  /\ rateCalls = <<0, 0>>
  /\ players = [p \in Players |-> NewPlayer(RegisteredName(p))]
  /\ req = <<>>
  /\ sess = <<>>
  /\ rejected = <<>>
  /\ published = [n |-> 0, last |-> <<>>]
  /\ stockfish_path = "stockfish"
  /\ ranked_q = <<>>
  /\ free_q = <<>>
  /\ calls = <<>>
  /\ socks = <<>>
  /\ rooms = [g \in RoomIds |-> {}]
  /\ bcasts = <<>>
  /\ sending = <<>>
  /\ chats = 0
  /\ blocking = 0
  /\ was_queued = <<>>
  /\ lobbies = [p \in Humans |-> NewLobby]
  /\ lobby = NewLobbyService

ParNext ==
  \/ \E p \in Players, id \in ParGameIds :
       \E uci \in UciInputs(StoredBoard(id)) : ParSubmitMove(p, id, uci)
  \/ \E r \in 1..MaxRequests : EngineCall(r)
  \/ \E r \in 1..MaxRequests : EngineReturn(r)
  \/ \E r \in 1..MaxRequests : ParReturn(r)

ParSpec == ParInit /\ [][ParNext]_vars

\* ------------------------------------------------- the automated-turn chain
\* maybe_play_system_move ends with `await maybe_play_system_move(db, g)`
\* (games.py:119-121): every ply of a chain runs one coroutine frame deeper
\* than the ply before it, and the frames are released only when the chain
\* ends.  The interpreter allows a fixed number of nested frames
\* (sys.getrecursionlimit(), 1000 unless the deployment changes it) and
\* raises RecursionError beyond it.  Nothing but checkmate, stalemate and
\* insufficient material ends a game (games.py:31-51), so a game can have
\* more plies than any limit.  RecursionLimit is the number of plies a
\* chain can apply before the interpreter's limit is reached, scaled down.
RecursionLimit == 6

\* The frames of maybe_play_system_move that await below the handler of
\* request r.
ChainDepth(r) == req[r].depth

\* games.py:146-180
ChainSubmitMove(p, id, uci) ==
  /\ SubmitMove(p, id, uci)
  /\ UNCHANGED otherVars

\* games.py:183-186 and 71-121: the request resumes after a broadcast and
\* returns, or applies the next automated ply one frame deeper.
ChainStep(r) ==
  /\ r \in DOMAIN req
  /\ req[r].pc = "broadcast"
  /\ bot_to_move(sess[r]) => ChainDepth(r) < RecursionLimit
  /\ AfterBroadcast(r)
  /\ UNCHANGED otherVars

\* games.py:120-121 at the interpreter's limit: the next frame raises
\* RecursionError, which unwinds the chain and the handler; the request is
\* answered 500 and the plies applied so far stay committed.
ChainOverflow(r) ==
  /\ r \in DOMAIN req
  /\ req[r].pc = "broadcast"
  /\ bot_to_move(sess[r])
  /\ ChainDepth(r) = RecursionLimit
  /\ req' = [req EXCEPT ![r].pc = "done", ![r].code = 500]
  /\ sess' = [s \in DOMAIN sess \ {r} |-> sess[s]]
  /\ UNCHANGED <<games, players, rejected, published, rateCalls, otherVars>>

\* The row of an unranked game whose two slots hold the bot account (it
\* asked for an automated opponent and was given the first bot account,
\* itself: matchmaking_service.py:72, 89-100), after 1. Nf3 Nf6 2. Ng1 Ng8.
ShuffleGame ==
  [NewGame(FALSE, 3, 3) EXCEPT !.fen = "N0", !.pgn = <<"Nf3", "Nf6", "Ng1", "Ng8">>]

\* A game between automated participants is under way.
ChainInit ==
  /\ games = <<ShuffleGame>>
  /\ rateCalls = <<0>>
  /\ players = [p \in Players |-> NewPlayer(RegisteredName(p))]
  /\ req = <<>>
  /\ sess = <<>>
  /\ rejected = <<>>
  /\ published = [n |-> 0, last |-> <<>>]
  /\ stockfish_path \in {None, "stockfish"}
  /\ ranked_q = <<>>
  /\ free_q = <<>>
  /\ calls = <<>>
  /\ socks = <<>>
  /\ rooms = [g \in RoomIds |-> {}]
  /\ bcasts = <<>>
  /\ sending = <<>>
  /\ chats = 0
  /\ blocking = 0
  /\ was_queued = <<>>
  /\ lobbies = [p \in Humans |-> NewLobby]
  /\ lobby = NewLobbyService

ChainNext ==
  \/ \E p \in Players, id \in GameIds :
       \E uci \in UciInputs(StoredBoard(id)) : ChainSubmitMove(p, id, uci)
  \/ \E r \in 1..MaxRequests : ChainStep(r)
  \/ \E r \in 1..MaxRequests : ChainOverflow(r)

ChainSpec == ChainInit /\ [][ChainNext]_vars

\* ------------------------------------------ desktop lobby, player versus player
\* desktop_gui/ui/lobby.py.  Each human runs a desktop client whose LobbyWidget
\* asks for a player-versus-player game, polls from a thread while it waits
\* and can cancel the search.  The bot client's loop (bot_client/
\* agamemnon_bot.py:36-49) is the same request and the same poll without the
\* cancel.  The server's part of every request is mm.enqueue's
\* player-versus-player branch, one step under its lock; the client handles
\* the response in the same step, since nothing else writes its state in
\* between (the poll thread is started after the response).

\* The user starts a search only while fewer games than this exist.
MaxLobbyGames == 2

\* api/matchmaking.py:51-59 with api/players.py:11-13: POST /matchmaking/cancel
\* answers 401 before it reaches mm.cancel when the request has no
\* Authorization header, and cancels for the token's player otherwise.
cancel_queue_endpoint(authorization, p) ==
  IF authorization = None
    THEN UNCHANGED <<ranked_q, free_q, was_queued, games, rateCalls, players, calls>>
    ELSE Cancel(p)

\* lobby.py:320-326: the poll thread reads the response of its request; with
\* a game id it stops polling, reports the game and ends, without one it
\* sleeps and goes round the loop.
poll_answer(l, r) ==
  IF r.game_id # 0
    THEN [l EXCEPT !.polling = FALSE, !.thread = "none", !.told = @ \cup {r.game_id}]
    ELSE [l EXCEPT !.thread = "check"]

\* lobby.py:263-280: Find Match.  The button is enabled while no search is
\* on; the user is taken to press it after the poll thread of an earlier
\* search has ended.  A waiting answer starts the poll thread
\* (lobby.py:313-331), an answer with a game opens it.
queue_pvp(p, ranked) ==
  /\ ~lobbies[p].polling
  /\ lobbies[p].thread = "none"
  /\ Cardinality(DOMAIN games) < MaxLobbyGames
  /\ PvPQueues(p, ranked)
  /\ LET r == PvPReturn(p, ranked) IN
     lobbies' = [lobbies EXCEPT ![p] =
                   IF r.status = "waiting"
                     THEN [@ EXCEPT !.ranked = ranked, !.cancelled = FALSE,
                                    !.polling = TRUE, !.thread = "check"]
                     ELSE [@ EXCEPT !.ranked = ranked, !.cancelled = FALSE,
                                    !.told = @ \cup {r.game_id}]]
  /\ UNCHANGED <<players, calls, was_queued>>

\* lobby.py:318: `while self._polling`, after the sleep of the round before.
PollCheck(p) ==
  /\ lobbies[p].thread = "check"
  /\ lobbies' = [lobbies EXCEPT ![p].thread = IF lobbies[p].polling THEN "call" ELSE "none"]
  /\ UNCHANGED <<games, rateCalls, players, ranked_q, free_q, calls, was_queued>>

\* lobby.py:319-328: the poll is the request of queue_pvp sent again.
PollCall(p) ==
  /\ lobbies[p].thread = "call"
  /\ PvPQueues(p, lobbies[p].ranked)
  /\ lobbies' = [lobbies EXCEPT ![p] = poll_answer(@, PvPReturn(p, lobbies[p].ranked))]
  /\ UNCHANGED <<players, calls, was_queued>>

\* lobby.py:296-311: Cancel Search, shown while the search is on.  The flag
\* of the poll thread is cleared and POST /matchmaking/cancel is sent with a
\* JSON body and no headers; whatever comes back is ignored.
cancel_queue(p) ==
  /\ lobbies[p].polling
  /\ lobbies' = [lobbies EXCEPT ![p].polling = FALSE, ![p].cancelled = TRUE]
  /\ cancel_queue_endpoint(None, p)

\* Two humans are registered and their clients show the lobby.
LobbyInit ==
  /\ MatchInit
  /\ \A p \in DOMAIN players : players[p].name = RegisteredName(p)

\* What the lobby and its requests leave alone.
lobbyOtherVars == <<req, sess, rejected, published, stockfish_path,
                    socks, rooms, bcasts, sending, chats, blocking, lobby>>

LobbyNext ==
  \/ /\ \E p \in Humans, ranked \in BOOLEAN : queue_pvp(p, ranked)
     /\ UNCHANGED lobbyOtherVars
  \/ /\ \E p \in Humans : PollCheck(p)
     /\ UNCHANGED lobbyOtherVars
  \/ /\ \E p \in Humans : PollCall(p)
     /\ UNCHANGED lobbyOtherVars
  \/ /\ \E p \in Humans : cancel_queue(p)
     /\ UNCHANGED lobbyOtherVars

LobbySpec == LobbyInit /\ [][LobbyNext]_vars

\* The poll thread runs as long as its loop goes on; users press buttons when
\* they like, if ever.
FairLobbySpec ==
  LobbySpec /\ \A p \in Humans :
                 /\ WF_vars(PollCheck(p) /\ UNCHANGED lobbyOtherVars)
                 /\ WF_vars(PollCall(p) /\ UNCHANGED lobbyOtherVars)

\* ------------------------------------------------------------- lobby chat
\* services/lobby_service.py and api/lobby.py.  Both endpoints are plain
\* `def` functions run on worker threads; send_message and get_messages work
\* under LobbyService._lock from the first statement to the return, so each
\* call is one step.

\* Number of POST /lobby/chat calls in one behaviour.
MaxSends == 4
\* LobbyService(max_messages), the capacity of the deque: 100 in the
\* source (lobby_service.py:25), scaled down.
max_messages == 3
\* The `since` and `limit` parameters of GET /lobby/chat that are tried.
SinceInputs == 0..MaxSends
LimitInputs == 0..3

\* list[start:] as Python evaluates it: a negative start counts from the
\* end, and both are clamped to the list.
SliceFrom(seq, start) ==
  LET n == Len(seq)
      s0 == IF start < 0 THEN (IF start + n < 0 THEN 0 ELSE start + n)
            ELSE (IF start > n THEN n ELSE start) IN
  SubSeq(seq, s0 + 1, n)

\* deque(maxlen).append: the oldest entry is dropped from a full deque.
DequeAppend(dq, x) ==
  IF Len(dq) >= max_messages THEN Append(Tail(dq), x) ELSE Append(dq, x)

\* api/lobby.py:23-40 and lobby_service.py:30-43, for a text that is not
\* blank.
send_message ==
  /\ lobby.next_id <= MaxSends
  /\ lobby' = [lobby EXCEPT !.messages = DequeAppend(@, lobby.next_id),
                            !.next_id = @ + 1]

\* lobby_service.py:45-52
get_messages(since_id, limit) ==
  LET messages == SelectSeq(lobby.messages, LAMBDA id : id > since_id) IN
  SliceFrom(messages, 0 - limit)

\* api/lobby.py:43-49
get_lobby_messages(since, limit) ==
  lobby' = [lobby EXCEPT !.got = <<[since |-> since, limit |-> limit,
                                    result |-> get_messages(since, limit)]>>]

LobbyChatInit == LobbyInit

chatOtherVars == <<games, players, req, sess, rejected, published, rateCalls,
                   stockfish_path, ranked_q, free_q, calls,
                   socks, rooms, bcasts, sending, chats, blocking, was_queued,
                   lobbies>>

LobbyChatNext ==
  \/ send_message /\ UNCHANGED chatOtherVars
  \/ /\ \E since \in SinceInputs, limit \in LimitInputs : get_lobby_messages(since, limit)
     /\ UNCHANGED chatOtherVars

LobbyChatSpec == LobbyChatInit /\ [][LobbyChatNext]_vars

\* ------------------------------------------------------------------- claims
\* chess.Board.push_san: the board after the legal move of b written `san`.
push_san(b, san) ==
  IF \E e \in Edges : e[1] = b /\ e[3] = san
    THEN (CHOOSE e \in Edges : e[1] = b /\ e[3] = san)[4]
    ELSE "invalid"

RECURSIVE Replay(_, _)
Replay(b, log) ==
  IF log = <<>> THEN b ELSE Replay(push_san(b, Head(log)), Tail(log))

\* Some step of this behaviour handed a payload of game id to the hub.
PublishedFor(id) == published'.n = published.n + 1 /\ published'.last[1].game_id = id

\* C1: two submitMove requests of one game that are in flight together are
\* never both applied from the same position: the positions one of them
\* validated and applied a move against (its own move, its automated
\* replies) are none of the other's.  A request in flight has passed the
\* checks of `move` and returns success.
C1_OneApplicationPerPosition ==
  \A r1 \in DOMAIN sess, r2 \in DOMAIN sess :
    (r1 # r2 /\ req[r1].game_id = req[r2].game_id)
      => req[r1].applied \cap req[r2].applied = {}

\* C2: the stored position of every game is the board reached by replaying
\* its stored move-log from the initial board.
C2_PositionIsReplayOfLog ==
  \A id \in DOMAIN games :
    board_from_fen_or_start(games[id].fen) = Replay(InitialBoard, games[id].pgn)

\* C2 witness: three plies are stored, one of them an automated reply chained
\* by a request, after a submission was rejected.
C2_Witness ==
  \E id \in DOMAIN games :
    /\ Len(games[id].pgn) >= 3
    /\ \E r \in DOMAIN req : Cardinality(req[r].applied) >= 2
    /\ rejected # <<>>

\* The stored game id is active and its mover-to-act is an automated
\* participant.
AutomatedTurn(id) == id \in DOMAIN games /\ bot_to_move(games[id])

\* C3: whenever an active game's mover-to-act is automated, a move is
\* eventually applied, so that it is no longer that participant's turn.
C3_AutomatedTurnProgresses ==
  \A id \in GameIds : AutomatedTurn(id) ~> ~AutomatedTurn(id)

\* C4: a stored game is ended exactly when its result is determined; a
\* waiting or active game has no result.
C4_EndedIffResult ==
  \A id \in DOMAIN games :
    /\ games[id].status = "ended" <=> games[id].result \in {"1-0", "0-1", "1/2-1/2"}
    /\ games[id].status \in {"waiting", "active"} => games[id].result = None
    /\ games[id].status \in {"waiting", "active", "ended"}

\* C4 witness: a game ended with a decisive result.
C4_Witness ==
  \E id \in DOMAIN games : games[id].status = "ended" /\ games[id].result = "0-1"

\* A position that ends the game (games.py:34-49).
Terminal(fen) ==
  \/ status_flags(fen).is_checkmate
  \/ status_flags(fen).is_stalemate
  \/ status_flags(fen).insufficient

\* C5: a game becomes ended only from active, in the step of a move
\* application whose position is terminal, and an ended game's row (status,
\* result, end-reason, position, move-log) never changes again.
C5_EndedIsFinal ==
  [][\A id \in DOMAIN games :
       /\ games[id].status = "ended" => games'[id] = games[id]
       /\ (games[id].status # "ended" /\ games'[id].status = "ended")
            => /\ games[id].status = "active"
               /\ PublishedFor(id)
               /\ Terminal(games'[id].fen)]_vars

\* C6: a submitMove on an active game by anyone but the occupant of the
\* mover-to-act slot is answered 403 (not your turn) and changes neither
\* the games, the players, the published events nor the requests in flight.
C6_NotYourTurn ==
  [][\A p \in Players, id \in DOMAIN games, u \in UciAlphabet \cup {"zz"} :
       (games[id].status = "active" /\ p # Mover(games[id]) /\ SubmitMove(p, id, u))
         => /\ rejected' = <<[player |-> p, code |-> 403]>>
            /\ UNCHANGED <<games, players, published, req, sess, rateCalls>>]_vars

\* C6 witness: on an active game with moves applied, a third party was
\* answered 403.
C6_Witness ==
  \E id \in DOMAIN games :
    /\ games[id].status = "active"
    /\ Len(games[id].pgn) >= 1
    /\ rejected # <<>>
    /\ rejected[1].code = 403
    /\ rejected[1].player \notin {games[id].white_id, games[id].black_id}

\* C7: a submitMove by the mover-to-act of an active game with a move the
\* rules engine rejects is answered 400 (illegal move), changes neither the
\* games, the players nor the published events, and starts no request chain
\* (no automated move).
C7_IllegalMove ==
  [][\A p \in Players, id \in DOMAIN games, u \in UciAlphabet \cup {"zz"} :
       (/\ games[id].status = "active"
        /\ p = Mover(games[id])
        /\ u \notin LegalMoves(board_from_fen_or_start(games[id].fen))
        /\ SubmitMove(p, id, u))
         => /\ rejected' = <<[player |-> p, code |-> 400]>>
            /\ UNCHANGED <<games, players, published, req, sess, rateCalls>>]_vars

\* C7 witness: the mover-to-act of an active game with moves applied was
\* answered 400.
C7_Witness ==
  \E id \in DOMAIN games :
    /\ games[id].status = "active"
    /\ Len(games[id].pgn) >= 1
    /\ rejected = <<[player |-> Mover(games[id]), code |-> 400]>>

\* C8: a submitMove on a game that does not exist or is not active is
\* answered 404 (game not active) for every requester and move, and changes
\* neither the games, the players, the published events nor the requests.
C8_GameNotActive ==
  [][\A p \in Players, id \in GameIds, u \in UciAlphabet \cup {"zz"} :
       ((id \notin DOMAIN games \/ games[id].status # "active") /\ SubmitMove(p, id, u))
         => /\ rejected' = <<[player |-> p, code |-> 404]>>
            /\ UNCHANGED <<games, players, published, req, sess, rateCalls>>]_vars

\* C8 witness: the participant to move in the final position of an ended
\* game was answered 404.
C8_Witness ==
  \E id \in DOMAIN games :
    /\ games[id].status = "ended"
    /\ rejected = <<[player |-> Mover(games[id]), code |-> 404]>>

\* C9: a move application that stores a position in which the side to move
\* is checkmated ends the game in that step, with end-reason checkmate and
\* the result of the side that just moved: 0-1 when White is to move, 1-0
\* otherwise.
C9_CheckmateEndsGame ==
  [][\A id \in DOMAIN games :
       (PublishedFor(id) /\ status_flags(games'[id].fen).is_checkmate)
         => /\ games'[id].status = "ended"
            /\ games'[id].end_reason = "checkmate"
            /\ games'[id].result =
                 IF status_flags(games'[id].fen).turn = "white" THEN "0-1" ELSE "1-0"]_vars

\* C9 witness: 1. f3 e5 2. g4 Qh4# was played and the game reports
\* second-mover-win by checkmate.
C9_Witness ==
  \E id \in DOMAIN games :
    /\ games[id].pgn = <<"f3", "e5", "g4", "Qh4#">>
    /\ games[id].status = "ended"
    /\ games[id].result = "0-1"
    /\ games[id].end_reason = "checkmate"

\* C10: for a ranked game with both slots filled, update_after_game has run
\* exactly once when the game is ended and not at all while it is active.
C10_RatedExactlyOnce ==
  \A id \in DOMAIN games :
    (games[id].ranked /\ games[id].white_id \in Players /\ games[id].black_id \in Players)
      => rateCalls[id] = IF games[id].status = "ended" THEN 1 ELSE 0

\* C11: an automated step that finds an automated participant to move
\* applies a move whatever the engine call did (raised, returned an illegal
\* move, returned a move): the move is legal in the position the step
\* holds, it is applied, checked for the end of the game and published as
\* a submitted move is, nothing is reported as rejected and the request
\* carries on towards its successful return.
C11_FallbackAppliesLegalMove ==
  [][\A r \in DOMAIN sess :
       (bot_to_move(sess[r]) /\ AfterBroadcast(r))
         => LET id == req[r].game_id
                fen == sess[r].fen
                uci == published'.last[1].uci IN
            /\ PublishedFor(id)
            /\ uci \in LegalMoves(board_from_fen_or_start(fen))
            /\ games'[id].fen = apply_new_fen(fen, uci)
            /\ games'[id].pgn = Append(sess[r].pgn, apply_san(fen, uci))
            /\ Terminal(games'[id].fen) => games'[id].status = "ended"
            /\ (Terminal(games'[id].fen) /\ sess[r].ranked)
                 => rateCalls'[id] = rateCalls[id] + 1
            /\ rejected' = rejected
            /\ req'[r].pc = "broadcast"]_vars

\* C11 witness: no engine executable is configured, so every engine call
\* raises, and a request in flight applied an automated move after its own.
C11_Witness ==
  /\ stockfish_path = None
  /\ \E r \in DOMAIN sess :
       /\ Cardinality(req[r].applied) >= 2
       /\ Len(games[req[r].game_id].pgn) >= 2

\* The step applies a move: a submission passed the checks of `move`, or a
\* request in flight applied an automated move.
ApplicationStep ==
  \/ Len(req') > Len(req)
  \/ \E r \in DOMAIN req : req'[r].applied # req[r].applied

\* The game and the position the move of an ApplicationStep is applied to.
AppliedGame ==
  IF Len(req') > Len(req) THEN req'[Len(req')].game_id
  ELSE req[CHOOSE r \in DOMAIN req : req'[r].applied # req[r].applied].game_id
AppliedFrom ==
  IF Len(req') > Len(req) THEN games[AppliedGame].fen
  ELSE sess[CHOOSE r \in DOMAIN req : req'[r].applied # req[r].applied].fen

\* C12: a step that applies a move hands exactly one move event of that
\* game to the hub, built from the row as stored by that step: the position
\* and the move-log that result from the move, and the terminal flags of
\* that position.  Every other step, a rejected submission included, hands
\* the hub nothing.
C12_OneEventPerApplication ==
  [][/\ ApplicationStep =>
          /\ published'.n = published.n + 1
          /\ LET e == published'.last[1] IN
             /\ e.type = "move"
             /\ e.game_id = AppliedGame
             /\ e.fen = games'[AppliedGame].fen
             /\ e.pgn = games'[AppliedGame].pgn
             /\ e.meta = status_flags(games'[AppliedGame].fen)
             /\ e.fen = apply_new_fen(AppliedFrom, e.uci)
             /\ e.pgn # <<>>
             /\ e.pgn[Len(e.pgn)] = apply_san(AppliedFrom, e.uci)
     /\ ~ApplicationStep => published' = published
     /\ rejected' # rejected => published' = published]_vars

\* C12 witness: a submitted move and an automated reply were published, and
\* a submission was rejected.
C12_Witness ==
  /\ published.n >= 2
  /\ \E r \in DOMAIN req :
       /\ Cardinality(req[r].applied) >= 2
       /\ published.last[1].game_id = req[r].game_id
  /\ rejected # <<>>

\* C19: every vs_system call of POST /matchmaking/queue that has ended
\* returned status active with the id of a stored active game in which the
\* requester holds one slot and a bot account the other; none ended as an
\* error and none returned waiting.
C19_VsSystemAlwaysMatched ==
  \A c \in DOMAIN calls :
    (calls[c].vs_system /\ calls[c].pc \in {"done", "failed"})
      => /\ calls[c].pc = "done"
         /\ calls[c].status = "active"
         /\ calls[c].game_id \in DOMAIN games
         /\ LET g == games[calls[c].game_id] IN
            /\ g.status = "active"
            /\ \/ g.white_id = calls[c].player /\ is_bot(g.black_id)
               \/ g.black_id = calls[c].player /\ is_bot(g.white_id)

\* The game the step creates, if any.
CreatedGame == Cardinality(DOMAIN games) + 1

\* C20: a player-versus-player call by p for a queue that holds another
\* participant o creates a game in that step and returns it as active: its
\* two slots are o and p, its ranked flag is the request's, neither o nor p
\* is left in the queue, and the other queue is not touched.
C20_PvPMatchesWithinQueue ==
  [][\A p \in Players, ranked \in BOOLEAN :
       LET q == IF ranked THEN ranked_q ELSE free_q
           q1 == IF ranked THEN ranked_q' ELSE free_q'
           other == IF ranked THEN free_q ELSE ranked_q
           other1 == IF ranked THEN free_q' ELSE ranked_q' IN
       (q # <<>> /\ p \notin Range(q) /\ EnqueuePvP(p, ranked))
         => /\ DOMAIN games' = DOMAIN games \cup {CreatedGame}
            /\ {games'[CreatedGame].white_id, games'[CreatedGame].black_id} = {q[1], p}
            /\ games'[CreatedGame].white_id # games'[CreatedGame].black_id
            /\ games'[CreatedGame].ranked = ranked
            /\ games'[CreatedGame].status = "active"
            /\ calls'[Len(calls')].status = "active"
            /\ calls'[Len(calls')].game_id = CreatedGame
            /\ q[1] \notin Range(q1) /\ p \notin Range(q1)
            /\ other1 = other]_vars

\* C20 witness: the last call was a ranked player-versus-player call that
\* returned a ranked game of two participants, made while the free queue
\* held an entry, which is still waiting there.
C20_Witness ==
  /\ free_q # <<>>
  /\ ranked_q = <<>>
  /\ calls # <<>>
  /\ LET c == calls[Len(calls)] IN
     /\ ~c.vs_system
     /\ c.ranked
     /\ c.status = "active"
     /\ c.game_id \in DOMAIN games
     /\ games[c.game_id].ranked
     /\ c.player \in {games[c.game_id].white_id, games[c.game_id].black_id}

\* C13: every socket receives the events of its game in the order in which
\* they were published: an event published later is never in its inbox
\* ahead of one published earlier, whichever requests published them.
C13_DeliveredInPublishOrder ==
  \A i \in DOMAIN socks :
    \A a \in DOMAIN socks[i].inbox, b \in DOMAIN socks[i].inbox :
      a < b => socks[i].inbox[a] < socks[i].inbox[b]

\* How often event k is in the inbox of the sockets s at index i.
Received(s, i, k) == Cardinality({a \in DOMAIN s[i].inbox : s[i].inbox[a] = k})

\* C14: a broadcast takes as its recipients exactly the sockets that are in
\* the room of its game when it is entered; no socket ever holds an event
\* twice, a socket that holds it belongs to the game of the event and was
\* a recipient, and when the broadcast has returned every recipient has
\* had one attempt: it holds the event, or its send raised.
C14_DeliveryToRoomOnce ==
  [][/\ \A k \in DOMAIN bcasts' \ DOMAIN bcasts :
          bcasts'[k].snapshot = Ordered(rooms[bcasts'[k].game_id])
     /\ \A k \in DOMAIN bcasts' : \A i \in DOMAIN socks' :
          LET n == Received(socks', i, k)
              b == bcasts'[k] IN
          /\ n <= 1
          /\ n = 1 => socks'[i].game_id = b.game_id /\ i \in Range(b.snapshot)
          /\ (b.pc = "done" /\ i \in Range(b.snapshot)) => (n = 1 \/ i \in b.dead)
          /\ ~(n = 1 /\ i \in b.dead)]_vars

\* C14 witness: an event of game 1 was delivered to a socket of room 1 while
\* a live socket of room 2 was subscribed, which holds nothing.
C14_Witness ==
  \E k \in DOMAIN bcasts, i \in DOMAIN socks, j \in DOMAIN socks :
    /\ bcasts[k].pc = "done"
    /\ bcasts[k].game_id = 1
    /\ socks[i].inbox = <<k>>
    /\ j \in rooms[2]
    /\ j < i
    /\ socks[j].up
    /\ socks[j].inbox = <<>>

\* C15: the step in which a send of a broadcast ends, delivered or raised,
\* moves the broadcast on to the next socket of its list; the rooms are
\* not modified while sockets are left in the list; the broadcast returns
\* exactly after the last socket, and then the sockets whose send raised,
\* and no others, are removed from the room of the game, and every other
\* recipient holds the event.
C15_FailedSendIsIsolated ==
  [][\A k \in DOMAIN bcasts :
       LET b == bcasts[k]
           b1 == bcasts'[k]
           t == b.snapshot[b.pos] IN
       (b.pc = "send" /\ b1 # b)
         => /\ b1.pos = b.pos + 1
            /\ b1.dead = b.dead \cup (IF socks[t].up THEN {} ELSE {t})
            /\ socks[t].up => Received(socks', t, k) = 1
            /\ b1.pc = (IF b.pos = Len(b.snapshot) THEN "done" ELSE "send")
            /\ b1.pc = "send" => rooms' = rooms
            /\ b1.pc = "done" =>
                 /\ rooms' = [rooms EXCEPT ![b.game_id] = @ \ b1.dead]
                 /\ \A i \in Range(b.snapshot) \ b1.dead : Received(socks', i, k) = 1]_vars

\* C15 witness: a broadcast has returned whose first send raised; the socket
\* after it holds the event and is still in the room, the dead one is not.
C15_Witness ==
  \E k \in DOMAIN bcasts :
    /\ bcasts[k].pc = "done"
    /\ Len(bcasts[k].snapshot) >= 2
    /\ bcasts[k].snapshot[1] \in bcasts[k].dead
    /\ bcasts[k].snapshot[1] \notin rooms[bcasts[k].game_id]
    /\ Received(socks, bcasts[k].snapshot[2], k) = 1
    /\ bcasts[k].snapshot[2] \in rooms[bcasts[k].game_id]

\* C16: a socket holds only events that were published while it was in the
\* room: it was among the recipients the broadcast took when it was entered.
C16_NoReplay ==
  \A i \in DOMAIN socks :
    \A a \in DOMAIN socks[i].inbox :
      /\ socks[i].inbox[a] \in DOMAIN bcasts
      /\ i \in Range(bcasts[socks[i].inbox[a]].snapshot)

\* C16 witness: a client received an event, left, missed the next event of
\* the game, came back with a new socket and received the one after it.
C16_Witness ==
  \E i \in DOMAIN socks, j \in DOMAIN socks :
    /\ i < j
    /\ socks[i].client = socks[j].client
    /\ socks[i].game_id = socks[j].game_id
    /\ socks[i].inbox = <<1>>
    /\ socks[j].inbox = <<3>>
    /\ bcasts[2].pc = "done"
    /\ bcasts[2].game_id = socks[i].game_id

\* C17: a move request that awaits a broadcast eventually returns, with the
\* automated reply that was due applied, whatever the observers of the game
\* do.
C17_StalledObserverDoesNotBlock ==
  \A r \in 1..MaxHubRequests :
    (r \in DOMAIN req /\ req[r].pc = "broadcast")
      ~> (r \in DOMAIN req /\ req[r].pc = "done")

\* C18: while a move request of one game is in flight, whatever step it is
\* at, the server can take the next step of a move request of another
\* game: it can accept a legal move of the participant to move there, and
\* it can resume a request of that game that is in flight.
C18_GamesDoNotBlockEachOther ==
  \A r1 \in DOMAIN req :
    req[r1].pc = "broadcast" =>
      /\ \A id \in DOMAIN games :
           (id # req[r1].game_id /\ games[id].status = "active" /\ Len(req) < MaxRequests)
             => \E u \in LegalMoves(StoredBoard(id)) :
                  ENABLED ParSubmitMove(Mover(games[id]), id, u)
      /\ \A r2 \in DOMAIN req :
           (req[r2].game_id # req[r1].game_id /\ req[r2].pc = "broadcast")
             => ENABLED (EngineCall(r2) \/ ParReturn(r2))

\* The step is a player-versus-player call of mm.enqueue that created a game.
PvPCreated ==
  /\ Len(calls') = Len(calls) + 1
  /\ ~calls'[Len(calls')].vs_system
  /\ DOMAIN games' # DOMAIN games

\* C21: in every step of any interleaving of enqueue and cancel calls, an
\* entry that leaves a queue is the entry of the participant whose cancel
\* the step is, or takes a slot of the game the step creates with that
\* queue's ranked flag; an entry that stays in the queue takes no slot of
\* that game; an entry that appears in a queue is the caller's, whose call
\* returns waiting; no participant is in a queue twice; and a step that
\* creates a
\* player-versus-player game fills its two slots with two different
\* participants, the head of one queue and the caller, leaves that queue
\* one entry shorter than it found it and the other queue as it was.
C21_NoEntryLostOrMatchedTwice ==
  [][\A ranked \in BOOLEAN :
       LET q == IF ranked THEN ranked_q ELSE free_q
           q1 == IF ranked THEN ranked_q' ELSE free_q'
           other == IF ranked THEN free_q ELSE ranked_q
           other1 == IF ranked THEN free_q' ELSE ranked_q'
           matched == IF PvPCreated /\ games'[CreatedGame].ranked = ranked
                        THEN {games'[CreatedGame].white_id, games'[CreatedGame].black_id}
                        ELSE {} IN
       /\ \A i \in DOMAIN q1, j \in DOMAIN q1 : q1[i] = q1[j] => i = j
       /\ \A x \in Range(q) \ Range(q1) : Cancel(x) \/ x \in matched
       /\ Range(q1) \cap matched = {}
       /\ \A x \in Range(q1) \ Range(q) :
            /\ Len(calls') = Len(calls) + 1
            /\ calls'[Len(calls')] = [player |-> x, ranked |-> ranked, vs_system |-> FALSE,
                                      pc |-> "done", bot |-> 0, status |-> "waiting",
                                      game_id |-> 0]
       /\ matched # {}
            => /\ Cardinality(matched) = 2
               /\ matched = {q[1], calls'[Len(calls')].player}
               /\ Len(q1) = Len(q) - 1
               /\ other1 = other]_vars

\* C21 witness: a player-versus-player game has been created, a cancel has
\* removed an entry, and both queues are empty again.
C21_Witness ==
  /\ was_queued = <<TRUE>>
  /\ ranked_q = <<>>
  /\ free_q = <<>>
  /\ \E c \in DOMAIN calls :
       /\ ~calls[c].vs_system
       /\ calls[c].status = "active"
       /\ calls[c].game_id \in DOMAIN games

\* C22: a player-versus-player call by a participant who is already in the
\* queue of the request returns waiting without a game id, creates no game
\* and leaves both queues, contents and order, as they were.
C22_DuplicateEnqueueIsNoOp ==
  [][\A p \in Players, ranked \in BOOLEAN :
       (p \in Range(IF ranked THEN ranked_q ELSE free_q) /\ EnqueuePvP(p, ranked))
         => /\ calls'[Len(calls')].status = "waiting"
            /\ calls'[Len(calls')].game_id = 0
            /\ games' = games
            /\ ranked_q' = ranked_q
            /\ free_q' = free_q]_vars

\* C22 witness: the last two calls are the same participant's requests for
\* the ranked queue, both answered waiting, and the queue holds it once.
C22_Witness ==
  /\ Len(calls) >= 2
  /\ LET a == calls[Len(calls) - 1]
         b == calls[Len(calls)] IN
     /\ a.player = b.player
     /\ ~a.vs_system /\ ~b.vs_system
     /\ a.ranked /\ b.ranked
     /\ a.status = "waiting" /\ b.status = "waiting"
     /\ ranked_q = <<a.player>>
     /\ games = <<>>

\* C23: cancel(p) returns true exactly when p was in the ranked queue or in
\* the free queue; afterwards p is in neither, the other entries of both
\* queues are there in the order they had, and nothing else has changed;
\* when p was in neither queue the queues are as they were.
C23_CancelRemovesFromBothQueues ==
  [][\A p \in Players :
       Cancel(p)
         => LET inq == p \in Range(ranked_q) \cup Range(free_q) IN
            /\ was_queued' = <<inq>>
            /\ p \notin Range(ranked_q') \cup Range(free_q')
            /\ ranked_q' = SelectSeq(ranked_q, LAMBDA x : x # p)
            /\ free_q' = SelectSeq(free_q, LAMBDA x : x # p)
            /\ (~inq) => (ranked_q' = ranked_q /\ free_q' = free_q)
            /\ games' = games /\ players' = players /\ calls' = calls]_vars

\* C23 witness: a participant who had asked for both queues and was waiting
\* in both has cancelled: the answer was true and both queues are empty.
C23_Witness ==
  /\ was_queued = <<TRUE>>
  /\ ranked_q = <<>>
  /\ free_q = <<>>
  /\ games = <<>>
  /\ \E a \in DOMAIN calls, b \in DOMAIN calls :
       /\ calls[a].player = calls[b].player
       /\ ~calls[a].vs_system /\ ~calls[b].vs_system
       /\ calls[a].ranked /\ ~calls[b].ranked
       /\ calls[a].status = "waiting" /\ calls[b].status = "waiting"

\* C26: every game a call of mm.enqueue creates, on the vs_system path or
\* on the player-versus-player path, is stored with status active, the
\* initial position, an empty move-log, no result and no end-reason, and
\* with an account in each slot.
C26_CreatedGamesStartActive ==
  [][\A id \in DOMAIN games' \ DOMAIN games :
       /\ games'[id].status = "active"
       /\ games'[id].fen = "startpos"
       /\ games'[id].pgn = <<>>
       /\ games'[id].result = None
       /\ games'[id].end_reason = None
       /\ games'[id].white_id \in DOMAIN players'
       /\ games'[id].black_id \in DOMAIN players']_vars

\* C26 witness: one game was created by a vs_system call and another by a
\* player-versus-player call.
C26_Witness ==
  \E a \in DOMAIN calls, b \in DOMAIN calls :
    /\ calls[a].vs_system /\ ~calls[b].vs_system
    /\ calls[a].status = "active" /\ calls[b].status = "active"
    /\ calls[a].game_id \in DOMAIN games
    /\ calls[b].game_id \in DOMAIN games
    /\ calls[a].game_id # calls[b].game_id

\* C24: a chat request for a stored game, whatever its status and whoever
\* sends it, is not refused, calls hub.broadcast once with a chat event that
\* carries the sender and the text, for the sockets in the room of that
\* game, and leaves the games, the players' counters and the ratings calls
\* as they were; a chat request for a game that is not stored is answered
\* 404 and calls no broadcast.  (The games of the model are active or
\* ended: no code path stores a game with status waiting.)
C24_ChatPublishesAndKeepsGame ==
  [][\A p \in Players, id \in RoomIds :
       Chat(p, id, "hi")
         => /\ games' = games /\ players' = players /\ rateCalls' = rateCalls
            /\ IF id \in DOMAIN games
                 THEN /\ rejected' = rejected
                      /\ published'.n = published.n + 1
                      /\ published'.last = <<[type |-> "chat", player_id |-> p, text |-> "hi"]>>
                      /\ Len(bcasts') = Len(bcasts) + 1
                      /\ bcasts'[Len(bcasts')].game_id = id
                      /\ bcasts'[Len(bcasts')].kind = "chat"
                      /\ Range(bcasts'[Len(bcasts')].snapshot) = rooms[id]
                 ELSE /\ rejected' = <<[player |-> p, code |-> 404]>>
                      /\ published' = published
                      /\ bcasts' = bcasts]_vars

\* C24 witness: the game has ended, and a chat message of player 2, who has
\* no slot in it, has reached a socket of its room.
C24_Witness ==
  /\ games[1].status = "ended"
  /\ published.n = 1
  /\ published.last[1].type = "chat"
  /\ published.last[1].player_id = 2
  /\ \E i \in DOMAIN socks : socks[i].game_id = 1 /\ socks[i].inbox = <<1>>

\* C25: a leave for a socket that is not in the room of its game leaves
\* every room as it was: the leave of a ws_game handler whose socket a
\* broadcast has removed already, and the leaves at the end of a broadcast
\* for sockets that their handlers have removed already; and after a leave
\* the socket is in no room.
C25_LeaveIsIdempotent ==
  [][/\ \A i \in DOMAIN socks :
          WsLeave(i) => /\ \A g \in RoomIds : i \notin rooms'[g]
                        /\ i \notin rooms[socks[i].game_id] => rooms' = rooms
     /\ \A k \in DOMAIN bcasts :
          (bcasts[k].pc = "send" /\ bcasts'[k].pc = "done")
            => /\ \A g \in RoomIds : bcasts'[k].dead \cap rooms'[g] = {}
               /\ bcasts'[k].dead \cap rooms[bcasts[k].game_id] = {} => rooms' = rooms]_vars

\* C25 witness: a socket was removed twice, by the broadcast whose send to
\* it raised and by its handler, while another socket stays in the room.
C25_Witness ==
  \E i \in DOMAIN socks, j \in DOMAIN socks, k \in DOMAIN bcasts :
    /\ i # j
    /\ ~socks[i].serving
    /\ bcasts[k].pc = "done"
    /\ i \in bcasts[k].dead
    /\ socks[j].game_id = socks[i].game_id
    /\ j \in rooms[socks[j].game_id]

\* C28: in the step in which a stored ranked game goes from active to
\* ended, the counters of the players change by exactly this much: after a
\* decisive result the winner has one win more and the loser one loss
\* more, after a draw each participant of the game has one draw more, and
\* every other counter of every player is what it was.
C28_CountersAfterRankedGame ==
  [][\A id \in DOMAIN games :
       (games[id].status = "active" /\ games'[id].status = "ended" /\ games'[id].ranked)
         => LET g == games'[id]
                decisive == g.result \in {"1-0", "0-1"}
                winner == IF g.result = "1-0" THEN g.white_id ELSE g.black_id
                loser == IF g.result = "1-0" THEN g.black_id ELSE g.white_id IN
            \A p \in DOMAIN players :
              /\ players'[p].wins =
                   players[p].wins + (IF decisive /\ p = winner THEN 1 ELSE 0)
              /\ players'[p].losses =
                   players[p].losses + (IF decisive /\ p = loser THEN 1 ELSE 0)
              /\ players'[p].draws =
                   players[p].draws
                     + (IF (~decisive) /\ p \in {g.white_id, g.black_id} THEN 1 ELSE 0)]_vars

\* C29: in the step in which a stored ranked game goes from active to
\* ended with a decisive result, the rating of the winner becomes strictly
\* greater and the rating of the loser strictly smaller than it was,
\* whichever colour won.
C29_WinnerUpLoserDown ==
  [][\A id \in DOMAIN games :
       (/\ games[id].status = "active"
        /\ games'[id].status = "ended"
        /\ games'[id].ranked
        /\ games'[id].result \in {"1-0", "0-1"})
         => LET g == games'[id]
                winner == IF g.result = "1-0" THEN g.white_id ELSE g.black_id
                loser == IF g.result = "1-0" THEN g.black_id ELSE g.white_id IN
            /\ players'[winner].rating > players[winner].rating
            /\ players'[loser].rating < players[loser].rating]_vars

\* Row g is active and the participant to move in it is automated.
AutomatedToMove(g) == g.status = "active" /\ is_bot(Mover(g))

\* Request r returns in this step.
Returns(r) ==
  /\ r \in DOMAIN req
  /\ req[r].pc = "broadcast"
  /\ req'[r].pc = "done"

C27_ChainRunsUntilEnded ==
  [][\A r \in DOMAIN req :
       (Returns(r) /\ is_bot(sess[r].white_id) /\ is_bot(sess[r].black_id))
         => /\ req'[r].code = 200
            /\ sess[r].status = "ended"]_vars

\* C34: every stored game has two different accounts in its White and
\* Black slots.
C34_TwoDifferentParticipants ==
  \A id \in DOMAIN games : games[id].white_id # games[id].black_id

\* C39: between calls each of the two queues holds at most one entry and no
\* participant twice; and an entry is out of a queue after a step only when
\* the step is that participant's cancel or creates a game, with the queue's
\* ranked flag, in which the participant holds a slot.
C39_QueuesHoldAtMostOne ==
  /\ [](/\ Len(ranked_q) <= 1
        /\ Len(free_q) <= 1
        /\ \A q \in {ranked_q, free_q} :
             \A i \in DOMAIN q, j \in DOMAIN q : q[i] = q[j] => i = j)
  /\ [][\A ranked \in BOOLEAN :
          \A x \in Range(IF ranked THEN ranked_q ELSE free_q)
                     \ Range(IF ranked THEN ranked_q' ELSE free_q') :
            \/ Cancel(x)
            \/ /\ DOMAIN games' = DOMAIN games \cup {CreatedGame}
               /\ games'[CreatedGame].ranked = ranked
               /\ x \in {games'[CreatedGame].white_id, games'[CreatedGame].black_id}]_vars

\* C39 witness: a ranked game was made of two queued participants and the
\* ranked queue is empty again, while one of the two waits alone in the free
\* queue.
C39_Witness ==
  /\ ranked_q = <<>>
  /\ Len(free_q) = 1
  /\ \E c \in DOMAIN calls :
       /\ ~calls[c].vs_system /\ calls[c].ranked
       /\ calls[c].status = "active"
       /\ calls[c].game_id \in DOMAIN games
       /\ free_q[1] \in {games[calls[c].game_id].white_id, games[calls[c].game_id].black_id}

\* C31: a participant who is waiting for an opponent and polls is in the end
\* given, in a matchmaking response, the id of every game it holds a slot
\* of: whenever a game with the participant in a slot is stored, the client
\* has been given its id, or is given it later, or gives up polling.
C31_PollingLearnsEveryGame ==
  \A p \in Humans, g \in 1..(MaxLobbyGames + 1) :
    (g \in DOMAIN games /\ p \in {games[g].white_id, games[g].black_id})
      ~> (g \in lobbies[p].told \/ ~lobbies[p].polling)

\* C35: a participant whose last matchmaking action was the client's Cancel
\* Search is in neither queue, and no step taken while that is so creates a
\* game with the participant in a slot.
C35_CancelledStaysOut ==
  /\ [](\A p \in Humans :
          lobbies[p].cancelled => p \notin Range(ranked_q) \cup Range(free_q))
  /\ [][\A p \in Humans :
          (lobbies[p].cancelled /\ lobbies'[p].cancelled)
            => \A g \in DOMAIN games' \ DOMAIN games :
                 p \notin {games'[g].white_id, games'[g].black_id}]_vars

\* C40: the answer of GET /lobby/chat holds only messages with an id above
\* `since`, in increasing order of id, and no more than `limit` of them.
C40_MessagesSinceWithinLimit ==
  \A i \in DOMAIN lobby.got :
    LET g == lobby.got[i] IN
    /\ \A k \in DOMAIN g.result : g.result[k] > g.since
    /\ \A k \in DOMAIN g.result, l \in DOMAIN g.result :
         k < l => g.result[k] < g.result[l]
    /\ Len(g.result) <= g.limit

\* C32: in every step the move-log of every stored game stays as it is or
\* gets one move appended, the log before the step being a prefix of the
\* log after it; and a step that applies a move to a game appends exactly
\* one move to that game's log.
C32_MoveLogAppendOnly ==
  [][\A id \in DOMAIN games :
       LET old == games[id].pgn
           new == games'[id].pgn IN
       /\ Len(new) >= Len(old)
       /\ SubSeq(new, 1, Len(old)) = old
       /\ Len(new) <= Len(old) + 1
       /\ (ApplicationStep /\ AppliedGame = id) => Len(new) = Len(old) + 1]_vars

\* C33: after a step that applies a move, the stored game is ended exactly
\* when its new position is checkmate, stalemate or insufficient material;
\* a stalemate and insufficient material give the result 1/2-1/2 with that
\* end-reason; in every other position the game is active with no result
\* and no end-reason.
C33_EndedExactlyWhenTerminal ==
  [][ApplicationStep
       => LET g == games'[AppliedGame]
              b == board_from_fen_or_start(g.fen) IN
          /\ g.status = "ended"
               <=> (IsCheckmate(b) \/ IsStalemate(b) \/ IsInsufficientMaterial(b))
          /\ IsStalemate(b) => (g.result = "1/2-1/2" /\ g.end_reason = "stalemate")
          /\ IsInsufficientMaterial(b)
               => (g.result = "1/2-1/2" /\ g.end_reason = "insufficient_material")
          /\ ~(IsCheckmate(b) \/ IsStalemate(b) \/ IsInsufficientMaterial(b))
               => (g.status = "active" /\ g.result = None /\ g.end_reason = None)]_vars

\* C36: in the step in which a stored ranked game of two different accounts
\* goes from active to ended, each participant's new rating is the rating
\* library's update of its own rating before the step against the other
\* participant's rating before the step.
C36_BothUpdatesFromOldValues ==
  [][\A id \in DOMAIN games :
       (/\ games[id].status = "active"
        /\ games'[id].status = "ended"
        /\ games'[id].ranked
        /\ games'[id].white_id # games'[id].black_id)
         => LET g == games'[id]
                white == players[g.white_id].rating
                black == players[g.black_id].rating IN
            /\ players'[g.white_id].rating =
                 update_player(white, black,
                               IF g.result = "1-0" THEN Win
                               ELSE IF g.result = "0-1" THEN Loss ELSE Draw)
            /\ players'[g.black_id].rating =
                 update_player(black, white,
                               IF g.result = "1-0" THEN Loss
                               ELSE IF g.result = "0-1" THEN Win ELSE Draw)]_vars

\* C38: a step that applies a move to an unranked game, the move that ends
\* it included, leaves the rating and the win, loss and draw counters of
\* every player as they were.
C38_UnrankedChangesNoPlayer ==
  [][(ApplicationStep /\ ~games[AppliedGame].ranked) => players' = players]_vars

\* C38 witness: an unranked game has been played to its end, with a result.
C38_Witness ==
  \E id \in DOMAIN games :
    /\ ~games[id].ranked
    /\ games[id].status = "ended"
    /\ games[id].result \in {"1-0", "0-1", "1/2-1/2"}
    /\ \A p \in DOMAIN players : players[p] = NewPlayer(RegisteredName(p))

\* The ended ranked games in which participant p holds a slot.
EndedRankedGamesOf(p) ==
  {id \in DOMAIN games :
     /\ games[id].ranked
     /\ games[id].status = "ended"
     /\ p \in {games[id].white_id, games[id].black_id}}

\* C37: the wins, losses and draws of every player add up to the number of
\* ended ranked games in which the player holds a slot.
C37_CountersMatchEndedGames ==
  \A p \in DOMAIN players :
    players[p].wins + players[p].losses + players[p].draws
      = Cardinality(EndedRankedGamesOf(p))

====
